---- MODULE Spec2Model ----
(***************************************************************************)
(* A model of the OracleX Polymarket paper-trading core:                   *)
(*   DemoTrader        (src/rai_algo/polymarket/demo_trader.py)            *)
(*   Position, OrderBook (src/rai_algo/polymarket/models.py)               *)
(*   MarketScannerAgent (src/rai_algo/polymarket/scanner.py)               *)
(*   AgentOrchestrator (src/rai_algo/polymarket/orchestrator.py)           *)
(*                                                                         *)
(* Decimal amounts are exact rationals <<n, d>> in lowest terms, d > 0.    *)
(* Python's None is the pair <<0, 0>>.  Every "await" on the market-data   *)
(* client is a point where another task may run; the synchronous code      *)
(* between two such points is one action.                                  *)
(***************************************************************************)
EXTENDS Integers, Sequences, FiniteSets, TLC

VARIABLES
    capital,           \* DemoTrader.capital
    positions,         \* DemoTrader.positions: insertion-ordered dict, <<id, ref>> pairs
    heap,              \* the Position objects ever created, indexed by reference
    trade_history,     \* DemoTrader.trade_history
    closed_positions,  \* DemoTrader.closed_positions (references)
    closers,           \* in-flight close_position calls made by callers of the ledger
    refresh,           \* the update_positions task
    scanner_opps,      \* MarketScannerAgent.opportunities
    scanned_markets,   \* MarketScannerAgent.scanned_markets
    nextId,            \* the clock value the next Opportunity id is made of
    now,               \* datetime.utcnow(), in hours
    scan,              \* the scan_markets task and the analyses it gathers
    lastScan,          \* history: the scanner operation of the last step and its result
    retained,          \* AgentOrchestrator.opportunities, a deque(maxlen)
    strategies,        \* AgentOrchestrator.strategies: insertion-ordered dict
    redis_client,      \* AgentOrchestrator.redis_client is set
    life,              \* the running flags, the four loop tasks, stop() and what it releases
    intake,            \* the _process_opportunities_loop task
    events,            \* history: events delivered to the in-process subscribers
    ledgerLog,         \* history: every fill and every close that touched capital
    lastCall           \* history: the ledger operation of the last step and its result

ledgerVars == <<capital, positions, heap, trade_history, closed_positions>>
scanVars == <<scanner_opps, scanned_markets, nextId, now, scan, lastScan>>
coordVars == <<retained, strategies, redis_client, life, intake, events>>
vars == <<capital, positions, heap, trade_history, closed_positions,
          closers, refresh, scanner_opps, scanned_markets, nextId, now, scan, lastScan,
          retained, strategies, redis_client, life, intake, events, ledgerLog, lastCall>>

----------------------------------------------------------------------------
(* Exact rational arithmetic for Decimal values.                           *)

RECURSIVE GCD(_, _)
GCD(a, b) == IF b = 0 THEN a ELSE GCD(b, a % b)

Abs(n) == IF n < 0 THEN -n ELSE n

Norm(n, d) ==
    IF d = 0 THEN <<0, 0>>
    ELSE LET s == IF d < 0 THEN -1 ELSE 1
             g == GCD(Abs(n), Abs(d))
         IN  <<(s * n) \div g, (s * d) \div g>>

None == <<0, 0>>
IsNone(x) == x[2] = 0
Zero == <<0, 1>>
One == <<1, 1>>
R(n, d) == Norm(n, d)

Lcm(a, b) == (a \div GCD(a, b)) * b

\* Sums and comparisons go through the least common denominator, products cancel
\* common factors first: the numbers stay as small as the values allow.
RAdd(x, y) ==
    IF x[2] = 0 \/ y[2] = 0 THEN None
    ELSE LET d == Lcm(x[2], y[2])
         IN  Norm(x[1] * (d \div x[2]) + y[1] * (d \div y[2]), d)
RSub(x, y) == RAdd(x, <<-y[1], y[2]>>)
RMul(x, y) ==
    IF x[2] = 0 \/ y[2] = 0 THEN None
    ELSE LET g1 == GCD(Abs(x[1]), y[2])
             g2 == GCD(Abs(y[1]), x[2])
         IN  Norm((x[1] \div g1) * (y[1] \div g2), (x[2] \div g2) * (y[2] \div g1))
RDiv(x, y) == RMul(x, Norm(y[2], y[1]))
RLt(x, y) ==
    IF x[2] = 0 \/ y[2] = 0 THEN x[1] * y[2] < y[1] * x[2]
    ELSE LET d == Lcm(x[2], y[2])
         IN  x[1] * (d \div x[2]) < y[1] * (d \div y[2])
RLe(x, y) == ~RLt(y, x)
RGt(x, y) == RLt(y, x)
RGe(x, y) == RLe(y, x)

\* Python truthiness of an Optional[Decimal]: None and Decimal("0") are falsy.
Truthy(x) == ~IsNone(x) /\ x[1] # 0

----------------------------------------------------------------------------
(* The bounded world: markets, prices, opportunities, order books.         *)

Markets == {"m1", "m2", "m3"}
OrderSides == {"YES", "NO"}

\* Bounds of the model.
MaxFills == 2         \* fills explored per run

InitialCapital == 10000   \* Settings.initial_capital

P0 == Zero
P2 == R(2, 10)
P4 == R(4, 10)
P6 == R(6, 10)

Opp(id, m, side, entry, target, stop) ==
    [id |-> id, market_id |-> m, opportunity_type |-> "arbitrage", side |-> side,
     score |-> One, entry_price |-> entry, target_price |-> target, stop_loss |-> stop]

\* Opportunities handed to the ledger by its callers: entry prices in (0, 1].
LedgerOpps ==
    { Opp(1, "m1", "YES", P4, P6, P2),
      Opp(2, "m1", "YES", P6, None, None),
      Opp(3, "m1", "NO", P4, None, P6) }

\* position_size_pct values handed to the ledger by its callers: in (0, 1].
LedgerPcts == { R(1, 10), One }

\* What the ledger's boundary can be handed when nothing validates the input.
RawOpps == LedgerOpps \cup
    { Opp(5, "m1", "NO", P0, None, None),
      Opp(6, "m1", "NO", R(3, 2), None, None) }
RawPcts == LedgerPcts \cup { R(-1, 10) }

NoOpp == Opp(0, "m1", "YES", None, None, None)

\* Order books as the market-data client returns them: None (avail = FALSE), or
\* the bid prices of the two outcomes.
Book(yes, no) == [avail |-> TRUE, yes_bids |-> yes, no_bids |-> no]
NoBook == [avail |-> FALSE, yes_bids |-> {}, no_bids |-> {}]
Books ==
    { NoBook,
      Book({P2}, {P6}),
      Book({P6, P4}, {P4}),
      Book({P0}, {}) }

RMax(S) == CHOOSE p \in S : \A q \in S : RLe(q, p)

\* OrderBook.get_best_yes_price / get_best_no_price: the highest bid, or None.
GetBestYesPrice(book) == IF book.yes_bids # {} THEN RMax(book.yes_bids) ELSE None
GetBestNoPrice(book) == IF book.no_bids # {} THEN RMax(book.no_bids) ELSE None

----------------------------------------------------------------------------
(* Position and the DemoTrader ledger.                                     *)

PositionId(market, side) == <<market, side>>
PositionIds == Markets \X OrderSides

HasPosition(pid) == \E i \in 1..Len(positions) : positions[i][1] = pid
RefOf(pid) == positions[CHOOSE i \in 1..Len(positions) : positions[i][1] = pid][2]
DelPosition(pid) == SelectSeq(positions, LAMBDA e : e[1] # pid)

\* update_pnl with the SHORT branch computed like the LONG one
UpdatePnl_sameSign(pos, price) ==
    [pos EXCEPT !.current_price = price,
                !.unrealized_pnl = RMul(RSub(price, pos.entry_price), pos.size)]

\* Position.update_pnl
UpdatePnl(pos, price) ==
    [pos EXCEPT !.current_price = price,
                !.unrealized_pnl =
                    IF pos.side = "LONG"
                    THEN RMul(RSub(price, pos.entry_price), pos.size)
                    ELSE RMul(RSub(pos.entry_price, price), pos.size)]

RECURSIVE UnrealizedOf(_)
UnrealizedOf(ps) ==
    IF ps = <<>> THEN Zero
    ELSE RAdd(heap[Head(ps)[2]].unrealized_pnl, UnrealizedOf(Tail(ps)))

\* DemoTrader.get_unrealized_pnl
GetUnrealizedPnl == UnrealizedOf(positions)

\* DemoTrader.get_equity
GetEquity == RAdd(capital, UnrealizedOf(positions))

RECURSIVE PnlOf(_)
PnlOf(ts) == IF ts = <<>> THEN Zero ELSE RAdd(Head(ts).pnl, PnlOf(Tail(ts)))

\* DemoTrader.get_realized_pnl
GetRealizedPnl == PnlOf(trade_history)

\* place_order: position_value = equity * Decimal(str(position_size_pct))
PositionValue(pct) == RMul(GetEquity, pct)

\* the capital check made against equity instead of capital
InsufficientCapital_vsEquity(position_value) == RGt(position_value, GetEquity)

\* place_order: "if position_value > self.capital"
InsufficientCapital(position_value) == RGt(position_value, capital)

\* the entry price averaged without the sizes as weights
MergedEntryPrice_unweighted(pos, price, size) ==
    RDiv(RAdd(pos.entry_price, price), R(2, 1))

\* _execute_order: the weighted-average entry price of a position after a fill
MergedEntryPrice(pos, price, size) ==
    RDiv(RAdd(RMul(pos.entry_price, pos.size), RMul(price, size)),
         RAdd(pos.size, size))

\* _execute_order: the Position created for a first fill
NewPosition(opp, size) ==
    [id |-> PositionId(opp.market_id, opp.side),
     side |-> IF opp.side = "YES" THEN "LONG" ELSE "SHORT",
     size |-> size,
     entry_price |-> opp.entry_price,
     current_price |-> opp.entry_price,
     unrealized_pnl |-> Zero,
     realized_pnl |-> Zero,
     stop_loss |-> opp.stop_loss,
     take_profit |-> opp.target_price,
     closed |-> FALSE]

Call(op, opp, pct, pid, ref, book, result) ==
    [op |-> op, entry |-> opp.entry_price, pct |-> pct, pid |-> pid, ref |-> ref,
     book |-> book, result |-> result]

Fill(ref, price, size) ==
    [kind |-> "fill", ref |-> ref, side |-> heap'[ref].side, price |-> price,
     size |-> size, entry |-> heap'[ref].entry_price, pnl |-> Zero]

\* DemoTrader._execute_order, for the order place_order built
ExecuteOrder(opp, pct, size) ==
    LET price == opp.entry_price
        cost == RMul(price, size)
        pid == PositionId(opp.market_id, opp.side)
        trade == [market_id |-> opp.market_id, side |-> opp.side, price |-> price,
                  size |-> size, pnl |-> Zero]
    IN  /\ capital' = RSub(capital, cost)
        /\ closed_positions' = closed_positions
        /\ IF HasPosition(pid)
           THEN LET ref == RefOf(pid)
                    pos == heap[ref]
                IN  IF RAdd(pos.size, size) = Zero
                    THEN \* total_cost / total_size raises decimal.DivisionByZero
                         /\ UNCHANGED <<positions, heap, trade_history, ledgerLog>>
                         /\ lastCall' = Call("place", opp, pct, pid, ref, NoBook, "raised")
                    ELSE /\ heap' = [heap EXCEPT ![ref] =
                                UpdatePnl([pos EXCEPT
                                    !.entry_price = MergedEntryPrice(pos, price, size),
                                    !.size = RAdd(pos.size, size)], price)]
                         /\ positions' = positions
                         /\ trade_history' = Append(trade_history, trade)
                         /\ ledgerLog' = Append(ledgerLog, Fill(ref, price, size))
                         /\ lastCall' = Call("place", opp, pct, pid, ref, NoBook, "order")
           ELSE LET ref == Len(heap) + 1
                IN  /\ heap' = Append(heap, UpdatePnl(NewPosition(opp, size), price))
                    /\ positions' = Append(positions, <<pid, ref>>)
                    /\ trade_history' = Append(trade_history, trade)
                    /\ ledgerLog' = Append(ledgerLog, Fill(ref, price, size))
                    /\ lastCall' = Call("place", opp, pct, pid, ref, NoBook, "order")

\* DemoTrader.place_order
PlaceOrder(opp, pct) ==
    LET position_value == PositionValue(pct)
        pid == PositionId(opp.market_id, opp.side)
    IN  IF opp.entry_price = Zero
        THEN \* position_value / opportunity.entry_price raises
             /\ UNCHANGED <<ledgerVars, ledgerLog>>
             /\ lastCall' = Call("place", opp, pct, pid, 0, NoBook, "raised")
        ELSE IF InsufficientCapital(position_value)
        THEN /\ UNCHANGED <<ledgerVars, ledgerLog>>
             /\ lastCall' = Call("place", opp, pct, pid, 0, NoBook, "none")
        ELSE ExecuteOrder(opp, pct, RDiv(position_value, opp.entry_price))

\* close_position: realized PnL of a position closed at exit_price
RealizedPnl(pos, exit_price) ==
    IF pos.side = "LONG"
    THEN RMul(RSub(exit_price, pos.entry_price), pos.size)
    ELSE RMul(RSub(pos.entry_price, exit_price), pos.size)

\* close_position / update_positions: the best price on the position's side
SidePrice(pos, book) ==
    IF pos.side = "LONG" THEN GetBestYesPrice(book) ELSE GetBestNoPrice(book)

\* the proceeds of a close with one detail changed: the position is paid back at
\* its entry price
Proceeds_atEntry(pos, exit_price) == RMul(pos.entry_price, pos.size)

\* close_position: "proceeds = exit_price * position.size"
Proceeds(pos, exit_price) == RMul(exit_price, pos.size)

\* close_position without its "if not exit_price" check
PriceMissing_bookOnly(book, exit_price) == ~book.avail

\* close_position: "if not orderbook: return None" / "if not exit_price: return None"
PriceMissing(book, exit_price) == ~book.avail \/ ~Truthy(exit_price)

\* close_position up to its await: is the id open?
CloseLookup(pid) == HasPosition(pid)

\* close_position after its await on get_orderbook, for the Position object
\* `ref` it looked up before the await
ClosePositionResume(op, pid, ref, book) ==
    LET pos == heap[ref]
        exit_price == SidePrice(pos, book)
    IN  IF PriceMissing(book, exit_price)
        THEN /\ UNCHANGED <<ledgerVars, ledgerLog>>
             /\ lastCall' = Call(op, NoOpp, Zero, pid, ref, book, "none")
        ELSE LET realized_pnl == RealizedPnl(pos, exit_price)
                 trade == [market_id |-> pos.id[1],
                           side |-> IF pos.side = "LONG" THEN "YES" ELSE "NO",
                           price |-> exit_price, size |-> pos.size,
                           pnl |-> realized_pnl]
             IN  /\ heap' = [heap EXCEPT ![ref] =
                        [pos EXCEPT !.realized_pnl = realized_pnl,
                                    !.current_price = exit_price,
                                    !.closed = TRUE]]
                 /\ capital' = RAdd(capital, Proceeds(pos, exit_price))
                 /\ trade_history' = Append(trade_history, trade)
                 /\ closed_positions' = Append(closed_positions, ref)
                 /\ ledgerLog' = Append(ledgerLog,
                        [kind |-> "close", ref |-> ref, side |-> pos.side,
                         price |-> exit_price, size |-> pos.size,
                         entry |-> pos.entry_price, pnl |-> realized_pnl])
                 /\ IF HasPosition(pid)
                    THEN /\ positions' = DelPosition(pid)
                         /\ lastCall' = Call(op, NoOpp, Zero, pid, ref, book, "position")
                    ELSE \* "del self.positions[position_id]" raises KeyError
                         /\ positions' = positions
                         /\ lastCall' = Call(op, NoOpp, Zero, pid, ref, book, "raised")

\* the exit thresholds compared strictly
ShouldClose_strict(pos, current_price) ==
    \/ /\ Truthy(pos.stop_loss)
       /\ IF pos.side = "LONG" THEN RLt(current_price, pos.stop_loss)
                               ELSE RGt(current_price, pos.stop_loss)
    \/ /\ Truthy(pos.take_profit)
       /\ IF pos.side = "LONG" THEN RGt(current_price, pos.take_profit)
                               ELSE RLt(current_price, pos.take_profit)

\* _check_exit_conditions: should_close
ShouldClose(pos, current_price) ==
    \/ /\ Truthy(pos.stop_loss)
       /\ IF pos.side = "LONG" THEN RLe(current_price, pos.stop_loss)
                               ELSE RGe(current_price, pos.stop_loss)
    \/ /\ Truthy(pos.take_profit)
       /\ IF pos.side = "LONG" THEN RGe(current_price, pos.take_profit)
                               ELSE RLe(current_price, pos.take_profit)

----------------------------------------------------------------------------
(* Tasks that use the ledger.                                              *)

\* The four periodic loops start() creates as tasks.
LoopNames == {"scan", "refresh", "intake", "strategy"}

\* AgentOrchestrator.__init__ and initialize(): nothing runs, the client is open,
\* and so is the sink when there is one
NotStarted(sink) ==
    [started |-> FALSE, running |-> FALSE, scanner_running |-> FALSE,
     loops |-> [l \in LoopNames |-> "none"],
     stop |-> "none", final |-> "none", cancelled |-> FALSE,
     client_open |-> TRUE, sink_open |-> sink,
     raised |-> {}, last |-> "init"]

Closers == {"c1"}
LedgerIds == { PositionId(o.market_id, o.side) : o \in LedgerOpps }
IdleCloser == [pc |-> "idle", pid |-> <<"m1", "YES">>, ref |-> 0]
IdleRefresh == [pc |-> "idle", items |-> <<>>, cid |-> <<"m1", "YES">>, cref |-> 0]
IdleScan == [pc |-> "idle", tasks |-> <<>>, seen |-> {}]
NoScan == [op |-> "none"]

RECURSIVE CountKind(_, _)
CountKind(log, kind) ==
    IF log = <<>> THEN 0
    ELSE (IF Head(log).kind = kind THEN 1 ELSE 0) + CountKind(Tail(log), kind)

NumFills == CountKind(ledgerLog, "fill")

\* A caller invokes place_order; it runs to completion without suspending.
PlaceCall(opp, pct) ==
    /\ NumFills < MaxFills
    /\ PlaceOrder(opp, pct)
    /\ UNCHANGED <<closers, refresh, scanVars, coordVars>>

\* A caller invokes close_position; it runs up to "await get_orderbook".
CloseCall(c, pid) ==
    /\ closers[c].pc = "idle"
    /\ IF CloseLookup(pid)
       THEN /\ closers' = [closers EXCEPT ![c] =
                   [pc |-> "fetch", pid |-> pid, ref |-> RefOf(pid)]]
            /\ lastCall' = Call("close_call", NoOpp, Zero, pid, RefOf(pid), NoBook, "await")
       ELSE /\ closers' = closers
            /\ lastCall' = Call("close_call", NoOpp, Zero, pid, 0, NoBook, "none")
    /\ UNCHANGED <<ledgerVars, ledgerLog, refresh, scanVars, coordVars>>

\* The order book arrives and the suspended close_position runs to its end.
CloseResume(c, book) ==
    /\ closers[c].pc = "fetch"
    /\ ClosePositionResume("close", closers[c].pid, closers[c].ref, book)
    /\ closers' = [closers EXCEPT ![c] = IdleCloser]
    /\ UNCHANGED <<refresh, scanVars, coordVars>>

\* the loop of update_positions with one detail changed: it ends at the item
RefreshContinue_abort == IdleRefresh

\* update_positions: the loop moves to its next item (or ends)
RefreshContinue ==
    LET rest == Tail(refresh.items)
    IN  IF rest = <<>> THEN IdleRefresh
        ELSE [pc |-> "book", items |-> rest, cid |-> <<"m1", "YES">>, cref |-> 0]

\* update_positions starts: "for position_id, position in list(self.positions.items())"
UpdatePositionsStart ==
    /\ refresh.pc = "idle"
    /\ positions # <<>>
    /\ refresh' = [pc |-> "book", items |-> positions, cid |-> <<"m1", "YES">>, cref |-> 0]
    /\ lastCall' = Call("refresh_start", NoOpp, Zero, <<"m1", "YES">>, 0, NoBook, "await")
    /\ UNCHANGED <<ledgerVars, ledgerLog, closers, scanVars, coordVars>>

\* update_positions: the order book of the current item arrives; mark to market,
\* _check_exit_conditions, and close_position up to its own await
UpdatePositionsBook(book) ==
    /\ refresh.pc = "book"
    /\ LET pid == Head(refresh.items)[1]
           ref == Head(refresh.items)[2]
           pos == heap[ref]
           current_price == SidePrice(pos, book)
       IN  IF ~book.avail \/ ~Truthy(current_price)
           THEN /\ refresh' = RefreshContinue
                /\ heap' = heap
                /\ lastCall' = Call("refresh", NoOpp, Zero, pid, ref, book, "none")
           ELSE /\ heap' = [heap EXCEPT ![ref] = UpdatePnl(pos, current_price)]
                /\ IF ShouldClose(pos, current_price) /\ CloseLookup(pos.id)
                   THEN /\ refresh' = [refresh EXCEPT !.pc = "close", !.cid = pos.id,
                                                      !.cref = RefOf(pos.id)]
                        /\ lastCall' = Call("refresh", NoOpp, Zero, pid, ref, book, "await")
                   ELSE /\ refresh' = RefreshContinue
                        /\ lastCall' = Call("refresh", NoOpp, Zero, pid, ref, book,
                               IF ShouldClose(pos, current_price) THEN "absent"
                               ELSE "marked")
    /\ UNCHANGED <<capital, positions, trade_history, closed_positions, ledgerLog,
                   closers, scanVars, coordVars>>

\* update_positions: the close_position it awaits resumes; an exception it raises
\* is caught by the loop body's "except Exception"
UpdatePositionsClose(book) ==
    /\ refresh.pc = "close"
    /\ ClosePositionResume("refresh_close", refresh.cid, refresh.cref, book)
    /\ refresh' = RefreshContinue
    /\ UNCHANGED <<closers, scanVars, coordVars>>

InitLedger ==
    /\ capital = R(InitialCapital, 1)
    /\ positions = <<>>
    /\ heap = <<>>
    /\ trade_history = <<>>
    /\ closed_positions = <<>>
    /\ closers = [c \in Closers |-> IdleCloser]
    /\ refresh = IdleRefresh
    /\ ledgerLog = <<>>
    /\ lastCall = Call("init", NoOpp, Zero, <<"m1", "YES">>, 0, NoBook, "none")
    /\ scanner_opps = <<>>
    /\ scanned_markets = {}
    /\ nextId = 1
    /\ now = 0
    /\ scan = IdleScan
    /\ lastScan = NoScan
    /\ retained = <<>>
    /\ strategies = <<>>
    /\ redis_client = FALSE
    /\ life = NotStarted(FALSE)
    /\ intake = [pc |-> "idle", todo |-> <<>>]
    /\ events = <<>>

NextLedger ==
    \/ \E opp \in LedgerOpps, pct \in LedgerPcts : PlaceCall(opp, pct)
    \/ \E c \in Closers, pid \in LedgerIds : CloseCall(c, pid)
    \/ \E c \in Closers, book \in Books : CloseResume(c, book)
    \/ UpdatePositionsStart
    \/ \E book \in Books : UpdatePositionsBook(book)
    \/ \E book \in Books : UpdatePositionsClose(book)

\* The ledger used through its public operations by concurrent callers.
SpecLedger == InitLedger /\ [][NextLedger]_vars

----------------------------------------------------------------------------
(* Properties of the ledger.                                               *)

RECURSIVE LogValue(_, _)
\* the sum of price * size over the log's entries of one kind
LogValue(log, kind) ==
    IF log = <<>> THEN Zero
    ELSE RAdd(IF Head(log).kind = kind THEN RMul(Head(log).price, Head(log).size) ELSE Zero,
              LogValue(Tail(log), kind))

\* C1: capital conservation. Capital equals the initial capital minus the value
\* (fill price * fill size) of every fill plus the value (exit price * size) of
\* every close; nothing else moves it.
C1_CapitalConserved ==
    capital = RAdd(RSub(R(InitialCapital, 1), LogValue(ledgerLog, "fill")),
                   LogValue(ledgerLog, "close"))

RECURSIVE ClosedGain(_)
\* the sum over the closes of (proceeds - cost basis)
ClosedGain(log) ==
    IF log = <<>> THEN Zero
    ELSE RAdd(IF Head(log).kind = "close"
              THEN RSub(RMul(Head(log).price, Head(log).size),
                        RMul(Head(log).entry, Head(log).size))
              ELSE Zero,
              ClosedGain(Tail(log)))

\* C2: the total realized PnL equals the sum over the closed positions of
\* (exit price * size - weighted-average entry price * size), for LONG and SHORT.
C2_RealizedIsProceedsMinusCost == GetRealizedPnl = ClosedGain(ledgerLog)

CloseCount(ref) ==
    Cardinality({i \in 1..Len(ledgerLog) :
                    ledgerLog[i].kind = "close" /\ ledgerLog[i].ref = ref})
ClosedCount(ref) ==
    Cardinality({i \in 1..Len(closed_positions) : closed_positions[i] = ref})

\* C3: no double accounting on close. Whatever the interleaving of the close
\* calls, a position is credited to capital once, has one closing trade, is in
\* the closed history once, and no close call fails with an error.
C3_NoDoubleClose ==
    /\ \A ref \in 1..Len(heap) : CloseCount(ref) <= 1 /\ ClosedCount(ref) <= 1
    /\ lastCall.op \in {"close", "refresh_close"} => lastCall.result # "raised"

FillsOf(ref) == SelectSeq(ledgerLog, LAMBDA e : e.kind = "fill" /\ e.ref = ref)

RECURSIVE SizeSum(_)
SizeSum(log) == IF log = <<>> THEN Zero ELSE RAdd(Head(log).size, SizeSum(Tail(log)))

\* C4: weighted-average entry price. A position's size is the sum of the sizes of
\* the fills merged into it, and its entry price times its size is the sum of
\* fill price * fill size over those fills.
C4_WeightedAverageEntry ==
    \A ref \in 1..Len(heap) :
        /\ heap[ref].size = SizeSum(FillsOf(ref))
        /\ RMul(heap[ref].entry_price, heap[ref].size) = LogValue(FillsOf(ref), "fill")

\* C4's case: an open position that merged two fills made at different prices.
C4_Witness ==
    \E i \in 1..Len(positions) :
        LET fs == FillsOf(positions[i][2])
        IN  /\ Len(fs) = 2
            /\ fs[1].price = P4 /\ fs[2].price = P6
            /\ RLt(P4, heap[positions[i][2]].entry_price)
            /\ RLt(heap[positions[i][2]].entry_price, P6)

Directional(side, entry, price, size) ==
    IF side = "LONG" THEN RMul(RSub(price, entry), size)
                     ELSE RMul(RSub(entry, price), size)

\* C5: PnL sign convention. Every open position's unrealized PnL is
\* (current - entry) * size if LONG and (entry - current) * size if SHORT, and
\* every close books the same formula at the exit price as realized PnL.
C5_PnlSignConvention ==
    /\ \A i \in 1..Len(positions) :
          LET pos == heap[positions[i][2]]
          IN  pos.unrealized_pnl =
                 Directional(pos.side, pos.entry_price, pos.current_price, pos.size)
    /\ \A i \in 1..Len(ledgerLog) :
          ledgerLog[i].kind = "close" =>
              ledgerLog[i].pnl = Directional(ledgerLog[i].side, ledgerLog[i].entry,
                                             ledgerLog[i].price, ledgerLog[i].size)

\* C5's case: a SHORT position marked above its entry shows a loss, and a LONG
\* position has been closed above its entry with a gain.
C5_Witness ==
    /\ \E i \in 1..Len(positions) :
          LET pos == heap[positions[i][2]]
          IN  /\ pos.side = "SHORT"
              /\ RGt(pos.current_price, pos.entry_price)
              /\ RLt(pos.unrealized_pnl, Zero)
    /\ \E i \in 1..Len(ledgerLog) :
          /\ ledgerLog[i].kind = "close" /\ ledgerLog[i].side = "LONG"
          /\ RGt(ledgerLog[i].pnl, Zero)

\* C8: insufficient capital is a no-op. A place_order whose position value
\* (equity * size fraction) exceeds capital returns no order, does not raise, and
\* leaves capital, positions, closed history and trade history unchanged.
C8_InsufficientCapitalNoOp ==
    [][ (lastCall'.op = "place" /\ RGt(RMul(GetEquity, lastCall'.pct), capital))
        => (lastCall'.result = "none" /\ UNCHANGED ledgerVars) ]_vars

\* C8's case: the last call was a placement refused for lack of capital.
C8_Witness ==
    /\ lastCall.op = "place" /\ lastCall.result = "none"
    /\ RGt(RMul(GetEquity, lastCall.pct), capital)
    /\ positions # <<>>

SideBids(side, book) == IF side = "LONG" THEN book.yes_bids ELSE book.no_bids

\* C10: close_position is a no-op when the id is not open or when the order book
\* or the best price of the position's side is unavailable: it returns nothing and
\* leaves capital, positions, the Position objects and both histories unchanged.
C10_CloseNoOp ==
    [][ ( \/ lastCall'.op = "close_call" /\ ~HasPosition(lastCall'.pid)
          \/ /\ lastCall'.op \in {"close", "refresh_close"}
             /\ \/ ~lastCall'.book.avail
                \/ SideBids(heap[lastCall'.ref].side, lastCall'.book) = {} )
        => (lastCall'.result = "none" /\ UNCHANGED ledgerVars) ]_vars

\* C10's case: a close of an open position resumed with no bid on its side.
C10_Witness ==
    /\ lastCall.op = "close" /\ lastCall.result = "none"
    /\ lastCall.book.avail
    /\ HasPosition(lastCall.pid)
    /\ SideBids(heap[lastCall.ref].side, lastCall.book) = {}

----------------------------------------------------------------------------
(* The ledger's boundary, handed whatever a caller passes.                 *)

NextBoundary ==
    \/ \E opp \in RawOpps, pct \in RawPcts : PlaceCall(opp, pct)
    \/ \E c \in Closers, pid \in LedgerIds : CloseCall(c, pid)
    \/ \E c \in Closers, book \in Books : CloseResume(c, book)

SpecBoundary == InitLedger /\ [][NextBoundary]_vars

InUnit(x) == RGt(x, Zero) /\ RLe(x, One)

\* C9: invalid input is rejected at the ledger boundary. A placement with a
\* non-positive size fraction or an entry price outside (0, 1] produces no order,
\* and no stored Position has a non-positive size or an entry price outside (0, 1].
C9_InvalidInputRejected ==
    /\ \A ref \in 1..Len(heap) :
          RGt(heap[ref].size, Zero) /\ InUnit(heap[ref].entry_price)
    /\ (lastCall.op = "place" /\ (RLe(lastCall.pct, Zero) \/ ~InUnit(lastCall.entry)))
          => lastCall.result # "order"

----------------------------------------------------------------------------
(* MarketScannerAgent: detectors and the opportunity buffer.               *)

\* The markets the data client lists: liquidity and end_date_iso, in hours
\* (NoDate: the market has none).
NoDate == -1
MarketInfo ==
    [m \in Markets |->
        IF m = "m1" THEN [liquidity |-> R(500, 1), end_date_iso |-> 18]
        ELSE IF m = "m2" THEN [liquidity |-> R(5000, 1), end_date_iso |-> NoDate]
        ELSE [liquidity |-> R(1000, 1), end_date_iso |-> 24]]

\* the resolution window with one detail changed: 24 hours ahead is inside it
ResolvesSoon_inclusive(m) ==
    /\ MarketInfo[m].end_date_iso # NoDate
    /\ 0 < MarketInfo[m].end_date_iso - now
    /\ MarketInfo[m].end_date_iso - now <= 24

\* check_time_decay: "timedelta(hours=0) < time_until_resolution < timedelta(hours=24)"
ResolvesSoon(m) ==
    /\ MarketInfo[m].end_date_iso # NoDate
    /\ 0 < MarketInfo[m].end_date_iso - now
    /\ MarketInfo[m].end_date_iso - now < 24

\* Order books the scanner can be served.
ScanBooks ==
    { NoBook,
      Book({R(85, 100)}, {R(5, 100)}),
      Book({R(46, 100)}, {R(46, 100)}),
      Book({R(45, 100)}, {R(46, 100)}),
      Book({P6}, {P4}) }

RMin(x, y) == IF RLe(x, y) THEN x ELSE y

Opportunity(id, m, type, side, score, expected_return, risk_level, entry, target) ==
    [id |-> id, market_id |-> m, opportunity_type |-> type, side |-> side,
     score |-> score, expected_return |-> expected_return, risk_level |-> risk_level,
     entry_price |-> entry, target_price |-> target,
     stop_loss |-> None, detected_at |-> now,
     expires_at |-> IF type = "time_decay" THEN MarketInfo[m].end_date_iso ELSE NoDate]

\* OrderBook.get_arbitrage_opportunity
GetArbitrageOpportunity(book) ==
    LET yes_price == GetBestYesPrice(book)
        no_price == GetBestNoPrice(book)
    IN  IF Truthy(yes_price) /\ Truthy(no_price)
           /\ RLt(RAdd(yes_price, no_price), R(98, 100))
        THEN RSub(One, RAdd(yes_price, no_price))
        ELSE None

\* check_arbitrage: the opportunities it returns (none or one), with id `id`
CheckArbitrage(m, book, id) ==
    LET arb_value == GetArbitrageOpportunity(book)
        yes_price == GetBestYesPrice(book)
        no_price == GetBestNoPrice(book)
    IN  IF Truthy(arb_value) /\ RGt(arb_value, R(2, 100))
           /\ Truthy(yes_price) /\ Truthy(no_price)
        THEN LET score == RMin(RMul(arb_value, R(10, 1)), One)
             IN  IF RLt(yes_price, no_price)
                 THEN <<Opportunity(id, m, "arbitrage", "YES", score, arb_value, "low",
                                    yes_price, R(5, 10))>>
                 ELSE <<Opportunity(id, m, "arbitrage", "NO", score, arb_value, "low",
                                    no_price, R(5, 10))>>
        ELSE <<>>

\* check_time_decay
CheckTimeDecay(m, book, id) ==
    LET yes_price == GetBestYesPrice(book)
        no_price == GetBestNoPrice(book)
    IN  IF ResolvesSoon(m) /\ Truthy(yes_price) /\ Truthy(no_price)
        THEN IF RGt(yes_price, R(8, 10))
             THEN <<Opportunity(id, m, "time_decay", "YES", R(7, 10), R(15, 100), "medium",
                                yes_price, One)>>
             ELSE IF RGt(no_price, R(8, 10))
             THEN <<Opportunity(id, m, "time_decay", "NO", R(7, 10), R(15, 100), "medium",
                                no_price, One)>>
             ELSE <<>>
        ELSE <<>>

\* check_liquidity
CheckLiquidity(m, book, id) ==
    LET yes_price == GetBestYesPrice(book)
        no_price == GetBestNoPrice(book)
    IN  IF RLt(MarketInfo[m].liquidity, R(1000, 1))
           /\ Truthy(yes_price) /\ Truthy(no_price)
           /\ (RGt(RSub(yes_price, R(5, 10)), R(2, 10))
               \/ RGt(RSub(R(5, 10), yes_price), R(2, 10)))
        THEN IF RLt(yes_price, R(3, 10))
             THEN <<Opportunity(id, m, "liquidity", "YES", R(6, 10), R(10, 100), "high",
                                yes_price, None)>>
             ELSE <<Opportunity(id, m, "liquidity", "NO", R(6, 10), R(10, 100), "high",
                                no_price, None)>>
        ELSE <<>>

\* analyze_market: the detectors in order; every Opportunity takes its id from
\* the clock at the moment it is built
Detected(m, book) ==
    LET arb == CheckArbitrage(m, book, nextId)
        decay == CheckTimeDecay(m, book, nextId + Len(arb))
        liq == CheckLiquidity(m, book, nextId + Len(arb) + Len(decay))
    IN  arb \o decay \o liq

\* analyze_market marking every market whose order book arrived
AnalyzeResume_marksAlways(m, book) ==
    LET found == IF book.avail THEN Detected(m, book) ELSE <<>>
    IN  /\ scanner_opps' = scanner_opps \o found
        /\ scanned_markets' = IF book.avail THEN scanned_markets \cup {m}
                              ELSE scanned_markets
        /\ nextId' = nextId + Len(found)

\* analyze_market after its await on get_orderbook: the detectors run on the
\* book that arrived and what they found is stored ("if opportunities:")
AnalyzeResume(m, book) ==
    LET found == IF book.avail THEN Detected(m, book) ELSE <<>>
    IN  /\ scanner_opps' = scanner_opps \o found
        /\ scanned_markets' = IF found # <<>> THEN scanned_markets \cup {m}
                              ELSE scanned_markets
        /\ nextId' = nextId + Len(found)

\* analyze_market for a market that is not in scanned_markets, whose order book
\* arrives and yields at least one opportunity (it changes nothing otherwise)
AnalyzeMarket(m, book) ==
    /\ m \notin scanned_markets
    /\ book.avail
    /\ Detected(m, book) # <<>>
    /\ AnalyzeResume(m, book)

\* an insertion sort step with one detail changed: the new element goes before its equals
RECURSIVE InsertByScore_beforeEquals(_, _)
InsertByScore_beforeEquals(sorted, o) ==
    IF sorted = <<>> THEN <<o>>
    ELSE IF RGt(Head(sorted).score, o.score)
         THEN <<Head(sorted)>> \o InsertByScore_beforeEquals(Tail(sorted), o)
         ELSE <<o>> \o sorted

RECURSIVE InsertByScore(_, _)
InsertByScore(sorted, o) ==
    IF sorted = <<>> THEN <<o>>
    ELSE IF RGe(Head(sorted).score, o.score)
         THEN <<Head(sorted)>> \o InsertByScore(Tail(sorted), o)
         ELSE <<o>> \o sorted

\* list.sort(key=score, reverse=True): descending and stable (the sorted prefix is
\* bound once, as the one element of a set, before the last element is inserted)
RECURSIVE SortByScore(_)
SortByScore(s) ==
    IF s = <<>> THEN <<>>
    ELSE CHOOSE r \in { InsertByScore(t, s[Len(s)]) :
                          t \in {SortByScore(SubSeq(s, 1, Len(s) - 1))} } : TRUE

FirstN(s, n) == SubSeq(s, 1, IF Len(s) < n THEN Len(s) ELSE n)

\* get_opportunities(min_score, opportunity_type, limit); None as a filter is
\* "no filter", and so is a min_score of 0 ("if min_score:")
GetOpportunities(min_score, opportunity_type, limit) ==
    LET by_score == IF Truthy(min_score)
                    THEN SelectSeq(scanner_opps, LAMBDA o : RGe(o.score, min_score))
                    ELSE scanner_opps
        by_type == IF opportunity_type # "any"
                   THEN SelectSeq(by_score, LAMBDA o : o.opportunity_type = opportunity_type)
                   ELSE by_score
    IN  FirstN(SortByScore(by_type), limit)

----------------------------------------------------------------------------
(* AgentOrchestrator: intake, admission control, strategy selection.       *)

\* Scaled-down sizes of the model.
GetLimit == 2                 \* get_opportunities(limit=100)
RetainMaxlen == 3             \* deque(maxlen=1000)
MaxConcurrentPositions == 1   \* settings.max_concurrent_positions

\* settings.opportunity_score_threshold, settings.max_position_size
OpportunityScoreThreshold == R(7, 10)
SettingsMaxPositionSize == R(2, 10)

\* Strategy blueprints the generator can hand over: test_results["win_rate"] and
\* risk_management["max_position_size"] (None: the key is absent).
Strategy(name, type, win_rate, max_size) ==
    [name |-> name, strategy_type |-> type, win_rate |-> win_rate,
     max_position_size |-> max_size]
StrategyPool ==
    { Strategy("s_arb", "arbitrage", R(6, 10), R(2, 10)),
      Strategy("s_decay", "time_decay", R(7, 10), None) }
NoStrategy == Strategy("", "", Zero, None)

\* The sink is used only when redis_client is set; a call to it can raise.
SinkOutcomes ==
    IF redis_client
    THEN {"ok", "store_fails", "publish_fails", "trade_publish_fails"}
    ELSE {"ok"}

IdleIntake == [pc |-> "idle", todo |-> <<>>]

\* The intake's loop body suspends in its sink calls only: without a sink a pass
\* runs from start to end before any other task is scheduled.
IntakeYielded == intake.pc = "idle" \/ redis_client
NoCall == Call("none", NoOpp, Zero, <<"m1", "YES">>, 0, NoBook, "none")

\* "any(o.id == opportunity.id for o in self.opportunities)"
AlreadyProcessed(id) == \E i \in 1..Len(retained) : retained[i].id = id

\* deque(maxlen).append: a full deque drops its oldest element
DequeAppend(dq, o) ==
    IF Len(dq) >= RetainMaxlen THEN Append(Tail(dq), o) ELSE Append(dq, o)

\* the limit test with ">" for ">="
AtPositionLimit_strict == Len(positions) > MaxConcurrentPositions

\* _consider_trading: "len(self.demo_trader.positions) >= settings.max_concurrent_positions"
AtPositionLimit == Len(positions) >= MaxConcurrentPositions

RECURSIVE BestByWinRate(_)
\* sort(key=win_rate, reverse=True)[0]: the first of the highest win rate
BestByWinRate(ss) ==
    IF Len(ss) = 1 THEN ss[1]
    ELSE LET best == BestByWinRate(SubSeq(ss, 1, Len(ss) - 1))
         IN  IF RGt(ss[Len(ss)].win_rate, best.win_rate) THEN ss[Len(ss)] ELSE best

\* _select_strategy with one detail changed: the opportunity's type is not looked at
SelectStrategy_overall(opp) ==
    IF strategies = <<>> THEN NoStrategy ELSE BestByWinRate(strategies)

\* _select_strategy
SelectStrategy(opp) ==
    LET matching == SelectSeq(strategies,
                        LAMBDA st : st.strategy_type = opp.opportunity_type)
        candidates == IF matching = <<>> THEN strategies ELSE matching
    IN  IF candidates = <<>> THEN NoStrategy ELSE BestByWinRate(candidates)

\* _calculate_position_size
CalculatePositionSize(opp, strategy) ==
    LET max_size == IF IsNone(strategy.max_position_size)
                    THEN SettingsMaxPositionSize
                    ELSE strategy.max_position_size
    IN  RMin(RMul(max_size, opp.score), max_size)

Event(type, id) == [type |-> type, id |-> id]

\* the intake's publications with one detail changed: "trade_executed" goes out
\* before the opportunity's own event
ConsiderTrading_tradeFirst(opp, sink) ==
    IF AtPositionLimit \/ SelectStrategy(opp) = NoStrategy
    THEN /\ UNCHANGED <<ledgerVars, ledgerLog>>
         /\ lastCall' = NoCall
         /\ events' = Append(events, Event("opportunity", opp.id))
    ELSE /\ PlaceOrder(opp, CalculatePositionSize(opp, SelectStrategy(opp)))
         /\ events' =
              IF lastCall'.result = "order" /\ sink # "trade_publish_fails"
              THEN events \o <<Event("trade_executed", opp.id),
                               Event("opportunity", opp.id)>>
              ELSE Append(events, Event("opportunity", opp.id))

\* _consider_trading; an exception of place_order is caught and logged
ConsiderTrading(opp, sink) ==
    IF AtPositionLimit \/ SelectStrategy(opp) = NoStrategy
    THEN /\ UNCHANGED <<ledgerVars, ledgerLog>>
         /\ lastCall' = NoCall
         /\ events' = Append(events, Event("opportunity", opp.id))
    ELSE /\ PlaceOrder(opp, CalculatePositionSize(opp, SelectStrategy(opp)))
         /\ events' =
              IF lastCall'.result = "order" /\ sink # "trade_publish_fails"
              THEN events \o <<Event("opportunity", opp.id),
                               Event("trade_executed", opp.id)>>
              ELSE Append(events, Event("opportunity", opp.id))

\* "self.strategies[strategy.name] = strategy" of _generate_strategies_loop
StoreStrategy(st) ==
    /\ IntakeYielded
    /\ \A i \in 1..Len(strategies) : strategies[i] # st
    /\ strategies' =
         IF \E i \in 1..Len(strategies) : strategies[i].name = st.name
         THEN [i \in 1..Len(strategies) |->
                  IF strategies[i].name = st.name THEN st ELSE strategies[i]]
         ELSE Append(strategies, st)
    /\ lastCall' = NoCall
    /\ UNCHANGED <<ledgerVars, ledgerLog, closers, refresh, scanVars,
                   retained, redis_client, life, intake, events>>

\* The scan loop analyses one market.
ScanMarket(m, book) ==
    /\ IntakeYielded
    /\ AnalyzeMarket(m, book)
    /\ lastCall' = NoCall
    /\ UNCHANGED <<now, scan, lastScan>>
    /\ UNCHANGED <<ledgerVars, ledgerLog, closers, refresh, coordVars>>

\* _process_opportunities_loop: a pass starts with what the scanner returns
IntakeStart ==
    /\ intake.pc = "idle"
    /\ GetOpportunities(OpportunityScoreThreshold, "any", GetLimit) # <<>>
    /\ intake' = [pc |-> "loop",
                  todo |-> GetOpportunities(OpportunityScoreThreshold, "any", GetLimit)]
    /\ lastCall' = NoCall
    /\ UNCHANGED <<ledgerVars, ledgerLog, closers, refresh, scanVars,
                   retained, strategies, redis_client, life, events>>

\* _process_opportunities_loop: the loop body for one opportunity.  A sink
\* failure in _store_opportunity or _publish leaves the loop through its
\* "except Exception" and ends the pass.
IntakeStep(sink) ==
    /\ intake.pc = "loop"
    /\ LET opp == Head(intake.todo)
           next == IF Tail(intake.todo) = <<>> THEN IdleIntake
                   ELSE [intake EXCEPT !.todo = Tail(intake.todo)]
       IN  IF AlreadyProcessed(opp.id)
           THEN /\ intake' = next
                /\ lastCall' = NoCall
                /\ UNCHANGED <<ledgerVars, ledgerLog, retained, events>>
           ELSE /\ retained' = DequeAppend(retained, opp)
                /\ IF sink \in {"store_fails", "publish_fails"}
                   THEN /\ intake' = IdleIntake
                        /\ lastCall' = NoCall
                        /\ UNCHANGED <<ledgerVars, ledgerLog, events>>
                   ELSE /\ intake' = next
                        /\ IF RGe(opp.score, R(8, 10))
                           THEN ConsiderTrading(opp, sink)
                           ELSE /\ events' = Append(events, Event("opportunity", opp.id))
                                /\ lastCall' = NoCall
                                /\ UNCHANGED <<ledgerVars, ledgerLog>>
    /\ UNCHANGED <<closers, refresh, scanVars, strategies, redis_client, life>>

\* AgentOrchestrator.__init__ and initialize(): the ledger, scanner and buffers
\* are empty; the Redis connection succeeded or was given up
Init ==
    /\ capital = R(InitialCapital, 1)
    /\ positions = <<>>
    /\ heap = <<>>
    /\ trade_history = <<>>
    /\ closed_positions = <<>>
    /\ closers = [c \in Closers |-> IdleCloser]
    /\ refresh = IdleRefresh
    /\ ledgerLog = <<>>
    /\ lastCall = NoCall
    /\ scanner_opps = <<>>
    /\ scanned_markets = {}
    /\ nextId = 1
    /\ now = 0
    /\ scan = IdleScan
    /\ lastScan = NoScan
    /\ retained = <<>>
    /\ strategies = <<>>
    /\ redis_client \in BOOLEAN
    /\ life = NotStarted(redis_client)
    /\ intake = IdleIntake
    /\ events = <<>>

\* What the data client serves while the orchestrator runs: per market its
\* order book or nothing, to the scanner and to the position refresh.
ServedBooks ==
    [m \in Markets |->
        IF m = "m1" THEN {NoBook, Book({R(85, 100)}, {R(5, 100)})}
        ELSE IF m = "m2" THEN {NoBook, Book({R(46, 100)}, {R(46, 100)})}
        ELSE {NoBook, Book({R(45, 100)}, {R(46, 100)})}]
RefreshBooks == { Book({P6, P4}, {P4}), Book({P2}, {P6}) }

Next ==
    \/ \E m \in Markets : \E book \in ServedBooks[m] : ScanMarket(m, book)
    \/ \E st \in StrategyPool : StoreStrategy(st)
    \/ IntakeStart
    \/ \E sink \in SinkOutcomes : IntakeStep(sink)
    \/ IntakeYielded /\ UpdatePositionsStart
    \/ IntakeYielded /\ \E book \in RefreshBooks : UpdatePositionsBook(book)
    \/ IntakeYielded /\ \E book \in RefreshBooks : UpdatePositionsClose(book)

\* The orchestrator's loops; orders reach the ledger through the intake only.
Spec == Init /\ [][Next]_vars

----------------------------------------------------------------------------
(* Properties of the orchestrator.                                         *)

RetainedCopies(id) == Cardinality({ i \in 1..Len(retained) : retained[i].id = id })
Published(type, id) ==
    Cardinality({ i \in 1..Len(events) : events[i] = Event(type, id) })
IssuedIds == 1..(nextId - 1)

\* C6: deduplication. Whatever the intake passes were, every opportunity
\* identifier the intake has taken in is held at most once in the retained
\* buffer and has had exactly one "opportunity" event published for it.
C6_Deduplication ==
    \A id \in IssuedIds :
        /\ RetainedCopies(id) <= 1
        /\ Published("opportunity", id) <= 1
        /\ RetainedCopies(id) = 1 => Published("opportunity", id) = 1

\* C7: admission control. With orders reaching the ledger through the intake
\* only, the number of open positions never exceeds max_concurrent_positions.
C7_AdmissionControl == Len(positions) <= MaxConcurrentPositions

\* C7 happens: a trade was executed and its position is still the open one at
\* the limit; the next opportunity taken in scores at least 0.8, is published,
\* and no order is placed for it although a strategy is at hand.
C7_Witness ==
    /\ Len(positions) = MaxConcurrentPositions
    /\ closed_positions = <<>>
    /\ Len(trade_history) = MaxConcurrentPositions
    /\ strategies # <<>>
    /\ Len(events) >= 3
    /\ events[Len(events) - 1].type = "trade_executed"
    /\ events[Len(events)].type = "opportunity"
    /\ events[Len(events)].id # events[Len(events) - 1].id
    /\ \E i \in 1..Len(retained) :
          /\ retained[i].id = events[Len(events)].id
          /\ RGe(retained[i].score, R(8, 10))
          /\ ~HasPosition(PositionId(retained[i].market_id, retained[i].side))

----------------------------------------------------------------------------
(* Properties of the position refresh.                                     *)

\* a threshold of the position is hit at price p
ExitHit(pos, p) ==
    \/ /\ ~IsNone(pos.stop_loss)
       /\ \/ pos.side = "LONG" /\ RLe(p, pos.stop_loss)
          \/ pos.side = "SHORT" /\ RGe(p, pos.stop_loss)
    \/ /\ ~IsNone(pos.take_profit)
       /\ \/ pos.side = "LONG" /\ RGe(p, pos.take_profit)
          \/ pos.side = "SHORT" /\ RLe(p, pos.take_profit)

----------------------------------------------------------------------------
(* Properties of the set of open positions.                                *)

\* at most one open position per (market, side), each filed under its own id
OnePerMarketSide ==
    /\ \A i, j \in 1..Len(positions) : positions[i][1] = positions[j][1] => i = j
    /\ \A i \in 1..Len(positions) : heap[positions[i][2]].id = positions[i][1]

\* a position is LONG if its id is on the YES side and SHORT on the NO side
SideFollowsOutcome ==
    \A r \in 1..Len(heap) : heap[r].side = (IF heap[r].id[2] = "YES" THEN "LONG" ELSE "SHORT")

\* no Position object is open and in closed history at once
OpenOrClosed ==
    \A i \in 1..Len(positions) : \A j \in 1..Len(closed_positions) :
        positions[i][2] # closed_positions[j]

\* a fill on an id that is open adds its size to that position
FillMerges ==
    (lastCall'.op = "place" /\ lastCall'.result = "order" /\ HasPosition(lastCall'.pid))
    => /\ positions' = positions
       /\ Len(heap') = Len(heap)
       /\ lastCall'.ref = RefOf(lastCall'.pid)
       /\ RGt(heap'[lastCall'.ref].size, heap[lastCall'.ref].size)
       /\ heap'[lastCall'.ref].size =
             RAdd(heap[lastCall'.ref].size, ledgerLog'[Len(ledgerLog')].size)

\* C12: one open position per (market, side). There is at most one open
\* position for each (market id, side); a fill on a (market, side) that has an
\* open position increases that position and creates no second one; a position
\* from a YES opportunity is LONG and from a NO opportunity SHORT; and no
\* position is open and in closed history at the same time.
C12_OnePositionPerMarketSide ==
    /\ [](OnePerMarketSide /\ SideFollowsOutcome /\ OpenOrClosed)
    /\ [][FillMerges]_vars

\* C12 without the demand that the merged size grows: a fill on an open id
\* adds its (possibly negative) size to that position and creates no second one.
C12_MergeKeepsOnePosition ==
    /\ [](OnePerMarketSide /\ SideFollowsOutcome /\ OpenOrClosed)
    /\ [][ (lastCall'.op = "place" /\ lastCall'.result = "order"
            /\ HasPosition(lastCall'.pid))
           => /\ positions' = positions
              /\ Len(heap') = Len(heap)
              /\ heap'[lastCall'.ref].size =
                    RAdd(heap[lastCall'.ref].size, ledgerLog'[Len(ledgerLog')].size) ]_vars

----------------------------------------------------------------------------
(* The scanner on its own: scan cycles, reads and pruning.                 *)

\* Sizes of the scanner's world.
TickHours == 12    \* the clock advances in steps of this many hours
MaxNow == 24       \* and is followed up to this hour

\* What get_markets returns to a scan cycle: one or two markets, possibly the
\* same id twice.
ScanMarkets == {"m1", "m2"}
ScanLists == { <<"m1">>, <<"m2">>, <<"m1", "m2">>, <<"m1", "m1">> }

\* Order books served to the analyses of a cycle: none, one on which detectors
\* fire, one on which none does.
CycleBooks == { NoBook, Book({R(85, 100)}, {R(5, 100)}), Book({P6}, {P4}) }

\* Arguments of the reads and of the pruning.
MinScores == { None, Zero, R(7, 10) }
TypeFilters == { "any", "arbitrage" }
Limits == { 1, 3 }
MaxAges == { 6, 24 }

\* what the scanner's own steps leave alone
scannerFrame == <<ledgerVars, ledgerLog, lastCall, closers, refresh, coordVars>>

\* time passes
Tick ==
    /\ now < MaxNow
    /\ now' = now + TickHours
    /\ lastScan' = [op |-> "tick"]
    /\ UNCHANGED <<scanner_opps, scanned_markets, nextId, scan, scannerFrame>>

\* scan_markets: one analyze_market task per listed market is gathered; each
\* runs up to its await on get_orderbook, or returns at once for a seen market
ScanStart(markets) ==
    /\ scan.pc = "idle"
    /\ LET tasks == [i \in 1..Len(markets) |->
                        [market_id |-> markets[i],
                         pc |-> IF markets[i] \in scanned_markets THEN "done"
                                ELSE "fetch"]]
       IN  /\ scan' = IF \E i \in 1..Len(tasks) : tasks[i].pc = "fetch"
                       THEN [pc |-> "gather", tasks |-> tasks, seen |-> scanned_markets]
                       ELSE IdleScan
           /\ lastScan' = [op |-> "scan_start", markets |-> markets,
                           fetching |-> { i \in 1..Len(tasks) : tasks[i].pc = "fetch" }]
    /\ UNCHANGED <<scanner_opps, scanned_markets, nextId, now, scannerFrame>>

\* the order book of one gathered analysis arrives (or the fetch fails)
AnalyzeBook(i, book) ==
    /\ scan.pc = "gather"
    /\ i \in 1..Len(scan.tasks)
    /\ scan.tasks[i].pc = "fetch"
    /\ AnalyzeResume(scan.tasks[i].market_id, book)
    /\ LET tasks == [scan.tasks EXCEPT ![i].pc = "done"]
       IN  scan' = IF \E j \in 1..Len(tasks) : tasks[j].pc = "fetch"
                   THEN [scan EXCEPT !.tasks = tasks]
                   ELSE IdleScan
    /\ lastScan' = [op |-> "analyze", market_id |-> scan.tasks[i].market_id,
                    book |-> book,
                    found |-> IF book.avail
                              THEN Detected(scan.tasks[i].market_id, book) ELSE <<>>]
    /\ UNCHANGED <<now, scannerFrame>>

\* a caller reads the scanner: get_opportunities sorts the list it has in hand,
\* which is self.opportunities itself when no filter made a new list
GetOpportunitiesCall(min_score, opportunity_type, limit) ==
    /\ scanner_opps' = IF ~Truthy(min_score) /\ opportunity_type = "any"
                       THEN SortByScore(scanner_opps)
                       ELSE scanner_opps
    /\ lastScan' = [op |-> "get", min_score |-> min_score,
                    opportunity_type |-> opportunity_type, limit |-> limit,
                    result |-> GetOpportunities(min_score, opportunity_type, limit)]
    /\ UNCHANGED <<scanned_markets, nextId, now, scan, scannerFrame>>

\* clear_old_opportunities with one detail changed: kept only if recent AND unexpired
Kept_both(o, max_age_hours) ==
    /\ o.detected_at > now - max_age_hours
    /\ o.expires_at # NoDate /\ o.expires_at > now

\* clear_old_opportunities: the condition under which an opportunity is kept
Kept(o, max_age_hours) ==
    \/ o.detected_at > now - max_age_hours
    \/ o.expires_at # NoDate /\ o.expires_at > now

\* clear_old_opportunities
ClearOldOpportunities(max_age_hours) ==
    /\ scanner_opps' = SelectSeq(scanner_opps, LAMBDA o : Kept(o, max_age_hours))
    /\ lastScan' = [op |-> "clear", max_age_hours |-> max_age_hours]
    /\ UNCHANGED <<scanned_markets, nextId, now, scan, scannerFrame>>

NextScanner ==
    \/ Tick
    \/ \E markets \in ScanLists : ScanStart(markets)
    \/ \E i \in 1..2, book \in CycleBooks : AnalyzeBook(i, book)
    \/ \E min_score \in MinScores, type \in TypeFilters, limit \in Limits :
          GetOpportunitiesCall(min_score, type, limit)
    \/ \E max_age_hours \in MaxAges : ClearOldOpportunities(max_age_hours)

\* The scanner driven by its scan loop, its readers and its maintenance.
SpecScanner == InitLedger /\ [][NextScanner]_vars

----------------------------------------------------------------------------
(* Properties of the scanner.                                              *)

C14_PruneClearsSeenSet ==
    [][ lastScan'.op = "clear" => scanned_markets' = {} ]_vars

\* C15: get_opportunities is a pure read. Whatever its arguments, the scanner's
\* buffer holds the same elements in the same order after the call as before.
C15_GetOpportunitiesPure ==
    [][ lastScan'.op = "get" => scanner_opps' = scanner_opps ]_vars

InBuffer(o, buffer) == \E i \in 1..Len(buffer) : buffer[i] = o

----------------------------------------------------------------------------
(* The read operations: get_opportunities and the ledger's queries.        *)

\* DemoTrader.get_total_pnl
GetTotalPnl == RAdd(GetRealizedPnl, GetUnrealizedPnl)

\* DemoTrader.get_roi, in percent
GetRoi ==
    IF InitialCapital = 0 THEN Zero
    ELSE RMul(RDiv(RSub(GetEquity, R(InitialCapital, 1)), R(InitialCapital, 1)), R(100, 1))

WinningTrades == SelectSeq(trade_history, LAMBDA t : RGt(t.pnl, Zero))
LosingTrades == SelectSeq(trade_history, LAMBDA t : RLt(t.pnl, Zero))

\* DemoTrader.get_statistics; float() of a Decimal is a function of its value,
\* and the values are kept exact here
GetStatistics ==
    [capital |-> capital,
     equity |-> GetEquity,
     initial_capital |-> R(InitialCapital, 1),
     total_pnl |-> GetTotalPnl,
     realized_pnl |-> GetRealizedPnl,
     unrealized_pnl |-> GetUnrealizedPnl,
     roi |-> GetRoi,
     total_trades |-> Len(trade_history),
     win_rate |-> IF Len(trade_history) > 0
                  THEN R(Len(WinningTrades), Len(trade_history)) ELSE Zero,
     avg_win |-> IF WinningTrades # <<>>
                 THEN RDiv(PnlOf(WinningTrades), R(Len(WinningTrades), 1)) ELSE Zero,
     avg_loss |-> IF LosingTrades # <<>>
                  THEN RDiv(PnlOf(LosingTrades), R(Len(LosingTrades), 1)) ELSE Zero,
     open_positions |-> Len(positions),
     closed_positions |-> Len(closed_positions)]

Queries == {"equity", "realized_pnl", "unrealized_pnl", "roi", "statistics"}

QueryValue(q) ==
    CASE q = "equity" -> GetEquity
      [] q = "realized_pnl" -> GetRealizedPnl
      [] q = "unrealized_pnl" -> GetUnrealizedPnl
      [] q = "roi" -> GetRoi
      [] q = "statistics" -> GetStatistics

\* a caller asks the ledger one of its queries; none of them assigns anything
LedgerQuery(q) ==
    /\ lastScan' = [op |-> "query", name |-> q, result |-> QueryValue(q)]
    /\ UNCHANGED <<scanner_opps, scanned_markets, nextId, now, scan, scannerFrame>>

\* What the readers' world does between reads: one opportunity is filled, marked
\* to market and closed at its target, while the scanner analyses two markets.
ReadOpp == Opp(1, "m1", "YES", P4, P6, P2)
ReadPct == R(1, 10)
ReadBooks == { Book({R(1, 2)}, {P4}), Book({P6}, {P4}) }
ReadScanBooks == { Book({R(85, 100)}, {R(5, 100)}), Book({P6}, {P4}) }

NextReads ==
    \/ PlaceCall(ReadOpp, ReadPct)
    \/ UpdatePositionsStart
    \/ \E book \in ReadBooks : UpdatePositionsBook(book)
    \/ \E book \in ReadBooks : UpdatePositionsClose(book)
    \/ ScanStart(<<"m1", "m2">>)
    \/ \E i \in 1..2, book \in ReadScanBooks : AnalyzeBook(i, book)
    \/ \E min_score \in MinScores, type \in TypeFilters, limit \in Limits :
          GetOpportunitiesCall(min_score, type, limit)
    \/ \E q \in Queries : LedgerQuery(q)

\* The ledger and the scanner with callers that read them.
SpecReads == InitLedger /\ [][NextReads]_vars

\* o passes the filters of a get_opportunities call
Matches(o, min_score, opportunity_type) ==
    /\ Truthy(min_score) => RGe(o.score, min_score)
    /\ opportunity_type # "any" => o.opportunity_type = opportunity_type

\* res is what the claim says a get_opportunities call returns from the buffer
FilteredSortedTruncated(res, buffer, min_score, opportunity_type, limit) ==
    LET matching == { i \in DOMAIN buffer : Matches(buffer[i], min_score, opportunity_type) }
    IN  /\ Len(res) = (IF Cardinality(matching) < limit THEN Cardinality(matching) ELSE limit)
        /\ \A i \in DOMAIN res : \E j \in matching : buffer[j] = res[i]
        /\ \A i, j \in DOMAIN res : i < j =>
               /\ RGe(res[i].score, res[j].score)
               /\ res[i].id # res[j].id
        /\ \A j \in matching :
               (\A i \in DOMAIN res : res[i] # buffer[j]) =>
                   \A i \in DOMAIN res : RGe(res[i].score, buffer[j].score)

\* the last read was a get_opportunities call and the scanner has not moved since
AfterGet == lastScan.op = "get"

\* this step is a ledger query
QueryStep ==
    /\ lastScan'.op = "query"
    /\ \/ lastScan.op # "query"
       \/ lastScan.name # lastScan'.name
       \/ lastScan.result # lastScan'.result

\* C16: reads are idempotent. Right after a get_opportunities call, the same call
\* again returns the same list, and that list is the buffer's elements that pass
\* the score and type filters, in descending score order, cut to limit; right
\* after a ledger query (equity, realized PnL, unrealized PnL, roi, statistics),
\* the same query again returns the same value: the query answered with the value
\* of the ledger's state and left that state as it was.
C16_ReadsIdempotent ==
    /\ [](AfterGet =>
            /\ GetOpportunities(lastScan.min_score, lastScan.opportunity_type,
                                lastScan.limit) = lastScan.result
            /\ FilteredSortedTruncated(lastScan.result, scanner_opps, lastScan.min_score,
                                       lastScan.opportunity_type, lastScan.limit))
    /\ [][\A q \in Queries :
            QueryStep /\ lastScan'.name = q =>
                /\ lastScan'.result = QueryValue(q)
                /\ UNCHANGED <<ledgerVars, closers, refresh>>]_vars

\* a get_opportunities call with no filter and limit 1 has chosen between two
\* opportunities of equal score, and a statistics query was answered with trades
\* closed at a profit on record
C16_Witness ==
    \/ /\ AfterGet
       /\ ~Truthy(lastScan.min_score) /\ lastScan.opportunity_type = "any"
       /\ lastScan.limit = 1
       /\ Len(scanner_opps) >= 2
       /\ scanner_opps[2].score = scanner_opps[1].score
       /\ trade_history # <<>>
    \/ /\ lastScan.op = "query"
       /\ lastScan.name = "statistics"
       /\ lastScan.result.total_trades = Len(trade_history)
       /\ WinningTrades # <<>>
       /\ Len(scanner_opps) >= 2

----------------------------------------------------------------------------
(* Order-book analytics and the scanner's detectors as functions of a book. *)

\* An order book with both ladders of both outcomes, as get_orderbook parses it.
FullBook(yes_bids, yes_asks, no_bids, no_asks) ==
    [avail |-> TRUE, yes_bids |-> yes_bids, yes_asks |-> yes_asks,
     no_bids |-> no_bids, no_asks |-> no_asks]

\* the best ask with one detail changed: the highest ask instead of the lowest
RMinOf_highest(S) == CHOOSE p \in S : \A q \in S : RLe(q, p)

RMinOf(S) == CHOOSE p \in S : \A q \in S : RLe(p, q)

\* EnhancedOrderBook.get_best_bid_ask: max(..., default=None), min(..., default=None),
\* and "if (best_bid and best_ask)" for spread and mid_price
GetBestBidAsk(book, side) ==
    LET bids == IF side = "YES" THEN book.yes_bids ELSE book.no_bids
        asks == IF side = "YES" THEN book.yes_asks ELSE book.no_asks
        best_bid == IF bids # {} THEN RMax(bids) ELSE None
        best_ask == IF asks # {} THEN RMinOf(asks) ELSE None
        both == Truthy(best_bid) /\ Truthy(best_ask)
    IN  [best_bid |-> best_bid,
         best_ask |-> best_ask,
         spread |-> IF both THEN RSub(best_ask, best_bid) ELSE None,
         mid_price |-> IF both THEN RDiv(RAdd(best_bid, best_ask), R(2, 1)) ELSE None]

\* What EnhancedOrderBook.get_arbitrage_opportunity returns: None, or its dict
NoArbitrage ==
    [type |-> "none", opportunity_pct |-> None, yes_price |-> None, no_price |-> None,
     total |-> None, profit_potential |-> None]

ArbitrageDict(type, opportunity, yes_mid, no_mid, total) ==
    [type |-> type, opportunity_pct |-> RMul(opportunity, R(100, 1)),
     yes_price |-> yes_mid, no_price |-> no_mid, total |-> total,
     profit_potential |-> opportunity]

\* EnhancedOrderBook.get_arbitrage_opportunity
EnhancedGetArbitrageOpportunity(book) ==
    LET yes_mid == GetBestBidAsk(book, "YES").mid_price
        no_mid == GetBestBidAsk(book, "NO").mid_price
        total == RAdd(yes_mid, no_mid)
    IN  IF Truthy(yes_mid) /\ Truthy(no_mid)
        THEN IF RLt(total, R(98, 100))
             THEN ArbitrageDict("buy_arbitrage", RSub(One, total), yes_mid, no_mid, total)
             ELSE IF RGt(total, R(102, 100))
             THEN ArbitrageDict("sell_arbitrage", RSub(total, One), yes_mid, no_mid, total)
             ELSE NoArbitrage
        ELSE NoArbitrage

\* One outcome's ladders, <<bid prices, ask prices>>: empty, one-sided, a best
\* bid of 0, several levels, and mids on and around the detectors' thresholds.
Ladders ==
    { <<{}, {}>>,
      <<{R(25, 100)}, {}>>,
      <<{Zero}, {R(40, 100)}>>,
      <<{R(25, 100)}, {R(27, 100)}>>,
      <<{R(30, 100)}, {R(32, 100)}>>,
      <<{R(39, 100)}, {R(41, 100)}>>,
      <<{R(48, 100), R(30, 100)}, {R(50, 100), R(60, 100)}>>,
      <<{R(49, 100)}, {R(51, 100)}>>,
      <<{R(50, 100)}, {R(52, 100)}>>,
      <<{R(54, 100)}, {R(56, 100)}>>,
      <<{R(70, 100)}, {R(72, 100)}>>,
      <<{R(75, 100), R(60, 100)}, {R(77, 100)}>> }

DetectorBooks == { FullBook(y[1], y[2], n[1], n[2]) : y \in Ladders, n \in Ladders }

\* a caller asks the order-book view for its arbitrage
ViewArbitrageCall(book) ==
    /\ lastScan' = [op |-> "view_arbitrage", book |-> book,
                    result |-> EnhancedGetArbitrageOpportunity(book)]
    /\ UNCHANGED <<scanner_opps, scanned_markets, nextId, now, scan, scannerFrame>>

\* the scanner runs check_arbitrage on a market's book
CheckArbitrageCall(m, book) ==
    /\ lastScan' = [op |-> "check_arbitrage", market_id |-> m, book |-> book,
                    found |-> CheckArbitrage(m, book, nextId)]
    /\ UNCHANGED <<scanner_opps, scanned_markets, nextId, now, scan, scannerFrame>>

\* the scanner runs check_liquidity on a market's book
CheckLiquidityCall(m, book) ==
    /\ lastScan' = [op |-> "check_liquidity", market_id |-> m, book |-> book,
                    found |-> CheckLiquidity(m, book, nextId)]
    /\ UNCHANGED <<scanner_opps, scanned_markets, nextId, now, scan, scannerFrame>>

NextDetectors ==
    \/ \E book \in DetectorBooks : ViewArbitrageCall(book)
    \/ \E m \in Markets, book \in DetectorBooks : CheckArbitrageCall(m, book)
    \/ \E m \in Markets, book \in DetectorBooks : CheckLiquidityCall(m, book)

\* The detectors and the order-book view applied to every book of DetectorBooks.
SpecDetectors == InitLedger /\ [][NextDetectors]_vars

\* The mid price of one outcome as the specification defines it: the average of
\* best bid and best ask, undefined (None) only when a ladder is empty.
Mid(book, side) ==
    LET bids == IF side = "YES" THEN book.yes_bids ELSE book.no_bids
        asks == IF side = "YES" THEN book.yes_asks ELSE book.no_asks
    IN  IF bids = {} \/ asks = {} THEN None
        ELSE RDiv(RAdd(RMax(bids), RMinOf(asks)), R(2, 1))

MidTotal(book) == RAdd(Mid(book, "YES"), Mid(book, "NO"))

\* C18: the scanner's arbitrage detector fires exactly when the order-book view's
\* arbitrage() reports a magnitude above 0.02, and the opportunity it produces is
\* on the cheaper outcome, scored min(magnitude * 10, 1), with target price 0.5
\* and risk tier "low".
C18_ArbitrageDetectorFollowsView ==
    lastScan.op = "check_arbitrage" =>
        LET view == EnhancedGetArbitrageOpportunity(lastScan.book)
            yes_price == GetBestYesPrice(lastScan.book)
            no_price == GetBestNoPrice(lastScan.book)
            fires == view.type # "none" /\ RGt(view.profit_potential, R(2, 100))
        IN  /\ fires <=> lastScan.found # <<>>
            /\ lastScan.found # <<>> =>
                 LET o == lastScan.found[1]
                 IN  /\ o.opportunity_type = "arbitrage"
                     /\ RLt(yes_price, no_price) => o.side = "YES"
                     /\ RLt(no_price, yes_price) => o.side = "NO"
                     /\ o.score = RMin(RMul(view.profit_potential, R(10, 1)), One)
                     /\ o.target_price = R(5, 10)
                     /\ o.risk_level = "low"

\* C19: arbitrage() on an order book returns nothing when a mid price is undefined
\* or the two mids sum to a total within [0.98, 1.02], a "buy" of magnitude
\* 1 - total when total < 0.98, and a "sell" of magnitude total - 1 when
\* total > 1.02.
C19_ViewArbitrage ==
    lastScan.op = "view_arbitrage" =>
        LET book == lastScan.book
            total == MidTotal(book)
            res == lastScan.result
        IN  IF IsNone(Mid(book, "YES")) \/ IsNone(Mid(book, "NO"))
            THEN res = NoArbitrage
            ELSE IF RLt(total, R(98, 100))
            THEN res.type = "buy_arbitrage" /\ res.profit_potential = RSub(One, total)
            ELSE IF RGt(total, R(102, 100))
            THEN res.type = "sell_arbitrage" /\ res.profit_potential = RSub(total, One)
            ELSE res = NoArbitrage

\* |YES best price - 0.5|
Deviation(yes_price) ==
    IF RGe(yes_price, R(5, 10)) THEN RSub(yes_price, R(5, 10))
    ELSE RSub(R(5, 10), yes_price)

\* C20: the liquidity detector fires for every market with liquidity below 1000
\* whose YES best price is more than 0.2 away from 0.5, with side YES when that
\* price is below 0.3 and NO otherwise, score 0.6, expected return 0.10 and risk
\* tier "high"; it does not fire when liquidity is at least 1000 or the deviation
\* is at most 0.2.
C20_LiquidityDetector ==
    lastScan.op = "check_liquidity" /\ lastScan.book.yes_bids # {} =>
        LET liquidity == MarketInfo[lastScan.market_id].liquidity
            yes_price == RMax(lastScan.book.yes_bids)
            far == RGt(Deviation(yes_price), R(2, 10))
        IN  IF RLt(liquidity, R(1000, 1)) /\ far
            THEN /\ Len(lastScan.found) = 1
                 /\ lastScan.found[1].opportunity_type = "liquidity"
                 /\ lastScan.found[1].side = (IF RLt(yes_price, R(3, 10)) THEN "YES" ELSE "NO")
                 /\ lastScan.found[1].score = R(6, 10)
                 /\ lastScan.found[1].expected_return = R(10, 100)
                 /\ lastScan.found[1].risk_level = "high"
            ELSE lastScan.found = <<>>

----------------------------------------------------------------------------
(* The time-decay detector as a function of the clock, a market and a book. *)

\* Best bids of one outcome around the detector's 0.8 threshold.
DecayBids == { {}, {Zero}, {R(50, 100)}, {R(80, 100)}, {R(81, 100), R(50, 100)}, {R(90, 100)} }
DecayBooks == { Book(y, n) : y \in DecayBids, n \in DecayBids }

\* the scanner runs check_time_decay on a market's book
CheckTimeDecayCall(m, book) ==
    /\ lastScan' = [op |-> "check_time_decay", market_id |-> m, book |-> book,
                    found |-> CheckTimeDecay(m, book, nextId)]
    /\ UNCHANGED <<scanner_opps, scanned_markets, nextId, now, scan, scannerFrame>>

NextTimeDecay ==
    \/ Tick
    \/ \E m \in Markets, book \in DecayBooks : CheckTimeDecayCall(m, book)

\* check_time_decay applied to every market and every book of DecayBooks as time passes.
SpecTimeDecay == InitLedger /\ [][NextTimeDecay]_vars

\* C21: the time-decay detector. It fires only when the market's resolution time
\* minus now lies strictly between 0 and 24 hours and one outcome's best price is
\* above 0.80; the opportunity then is on that outcome, entered at that outcome's
\* best price, with score 0.7, expected return 0.15, risk tier "medium" and expiry
\* equal to the resolution time; a market without resolution time never yields one.
C21_TimeDecayDetector ==
    lastScan.op = "check_time_decay" =>
        LET end == MarketInfo[lastScan.market_id].end_date_iso
            yes_price == GetBestYesPrice(lastScan.book)
            no_price == GetBestNoPrice(lastScan.book)
            found == lastScan.found
        IN  /\ end = NoDate => found = <<>>
            /\ found # <<>> =>
                 /\ Len(found) = 1
                 /\ end # NoDate /\ 0 < end - now /\ end - now < 24
                 /\ found[1].opportunity_type = "time_decay"
                 /\ \/ /\ found[1].side = "YES"
                       /\ ~IsNone(yes_price) /\ RGt(yes_price, R(80, 100))
                       /\ found[1].entry_price = yes_price
                    \/ /\ found[1].side = "NO"
                       /\ ~IsNone(no_price) /\ RGt(no_price, R(80, 100))
                       /\ found[1].entry_price = no_price
                 /\ found[1].score = R(7, 10)
                 /\ found[1].expected_return = R(15, 100)
                 /\ found[1].risk_level = "medium"
                 /\ found[1].expires_at = end

\* C21's case: the detector has fired on the NO side of a market that resolves
\* in 12 hours, the YES side being below the threshold.
C21_Witness ==
    /\ lastScan.op = "check_time_decay"
    /\ lastScan.found # <<>>
    /\ lastScan.found[1].side = "NO"
    /\ MarketInfo[lastScan.market_id].end_date_iso - now = 12

----------------------------------------------------------------------------
(* EnhancedOrderBook: best bid/ask and market impact as functions of a book. *)

ViewSides == {"YES", "NO"}

\* a caller asks the order-book view for the best bid and ask of one outcome
BestBidAskCall(book, side) ==
    /\ lastScan' = [op |-> "best_bid_ask", book |-> book, side |-> side,
                    result |-> GetBestBidAsk(book, side)]
    /\ UNCHANGED <<scanner_opps, scanned_markets, nextId, now, scan, scannerFrame>>

\* An ask level with its size.
Level(price, size) == [price |-> price, size |-> size]

\* sorted(asks, key=lambda x: x.price): ascending and stable
RECURSIVE InsertByPrice(_, _)
InsertByPrice(sorted, a) ==
    IF sorted = <<>> THEN <<a>>
    ELSE IF RLe(Head(sorted).price, a.price)
         THEN <<Head(sorted)>> \o InsertByPrice(Tail(sorted), a)
         ELSE <<a>> \o sorted

RECURSIVE SortByPrice(_)
SortByPrice(s) ==
    IF s = <<>> THEN <<>>
    ELSE InsertByPrice(SortByPrice(SubSeq(s, 1, Len(s) - 1)), s[Len(s)])

\* get_market_impact: the loop over the sorted asks, from the state
\* (remaining_size, total_cost, levels_consumed) it has reached
RECURSIVE WalkAsks(_, _, _, _)
WalkAsks(asks, remaining_size, total_cost, levels_consumed) ==
    IF asks = <<>> \/ RLe(remaining_size, Zero)
    THEN [remaining_size |-> remaining_size, total_cost |-> total_cost,
          levels_consumed |-> levels_consumed]
    ELSE LET size_to_take == RMin(remaining_size, Head(asks).size)
         IN  WalkAsks(Tail(asks), RSub(remaining_size, size_to_take),
                      RAdd(total_cost, RMul(size_to_take, Head(asks).price)),
                      levels_consumed + 1)

\* the ask prices of a ladder of levels
AskPrices(asks) == { asks[i].price : i \in DOMAIN asks }

\* EnhancedOrderBook.get_market_impact on the asks of one outcome; best_ask is
\* get_best_bid_ask(side)["best_ask"], the lowest ask price or None
GetMarketImpact(asks, size) ==
    LET walked == WalkAsks(SortByPrice(asks), size, Zero, 0)
        avg_price == IF RGt(size, Zero) THEN RDiv(walked.total_cost, size) ELSE Zero
        best_ask == IF asks # <<>> THEN RMinOf(AskPrices(asks)) ELSE None
    IN  [average_price |-> avg_price,
         price_impact_pct |-> IF Truthy(best_ask)
                              THEN RMul(RDiv(RSub(avg_price, best_ask), best_ask), R(100, 1))
                              ELSE Zero,
         levels_consumed |-> walked.levels_consumed,
         total_cost |-> walked.total_cost]

\* Ask ladders with sizes, as the client parses them (in the order received),
\* and the sizes a caller asks the impact of.
AskLadders ==
    { <<>>,
      <<Level(R(50, 100), One)>>,
      <<Level(R(60, 100), One), Level(R(50, 100), One)>>,
      <<Level(R(50, 100), R(2, 1)), Level(R(60, 100), R(3, 1))>>,
      <<Level(R(40, 100), One), Level(R(50, 100), One), Level(R(80, 100), R(2, 1))>> }
ImpactSizes == { Zero, R(1, 2), One, R(2, 1), R(3, 1), R(10, 1) }

\* a caller asks the order-book view for the impact of buying `size` of one outcome
MarketImpactCall(yes_asks, no_asks, side, size) ==
    /\ lastScan' = [op |-> "market_impact", yes_asks |-> yes_asks, no_asks |-> no_asks,
                    side |-> side, size |-> size,
                    result |-> GetMarketImpact(IF side = "YES" THEN yes_asks ELSE no_asks,
                                               size)]
    /\ UNCHANGED <<scanner_opps, scanned_markets, nextId, now, scan, scannerFrame>>

NextView ==
    \/ \E book \in DetectorBooks, side \in ViewSides : BestBidAskCall(book, side)
    \/ \E yes_asks \in AskLadders, no_asks \in AskLadders, side \in ViewSides,
          size \in ImpactSizes : MarketImpactCall(yes_asks, no_asks, side, size)

\* The order-book view asked about every book.
SpecView == InitLedger /\ [][NextView]_vars

\* the bid and ask prices of the side a best_bid_ask call was about
CalledBids == IF lastScan.side = "YES" THEN lastScan.book.yes_bids ELSE lastScan.book.no_bids
CalledAsks == IF lastScan.side = "YES" THEN lastScan.book.yes_asks ELSE lastScan.book.no_asks

\* C22: bestBidAsk. The best bid is undefined exactly when the side has no bids
\* and the best ask exactly when it has no asks, a best price of 0 being reported
\* as 0; otherwise the best bid is the highest bid price and the best ask the
\* lowest ask price; spread and mid are undefined whenever one of the two is.
C22_BestBidAsk ==
    lastScan.op = "best_bid_ask" =>
        LET res == lastScan.result
        IN  /\ IsNone(res.best_bid) <=> CalledBids = {}
            /\ IsNone(res.best_ask) <=> CalledAsks = {}
            /\ CalledBids # {} =>
                 res.best_bid \in CalledBids /\ \A p \in CalledBids : RLe(p, res.best_bid)
            /\ CalledAsks # {} =>
                 res.best_ask \in CalledAsks /\ \A p \in CalledAsks : RLe(res.best_ask, p)
            /\ IsNone(res.best_bid) \/ IsNone(res.best_ask) =>
                 IsNone(res.spread) /\ IsNone(res.mid_price)

\* C22's case: a side whose only bid is at price 0 and which has asks was
\* reported with best bid 0 and its lowest ask
C22_Witness ==
    /\ lastScan.op = "best_bid_ask"
    /\ CalledBids = {Zero}
    /\ CalledAsks # {}
    /\ lastScan.result.best_bid = Zero
    /\ lastScan.result.best_ask = RMinOf(CalledAsks)

\* C23: undefined is distinct from zero. When a side has bids and asks, spread =
\* best ask - best bid and mid = (best bid + best ask) / 2 are both defined, also
\* when a best price is exactly 0; they are undefined only when bids or asks are
\* missing.
C23_UndefinedIsNotZero ==
    lastScan.op = "best_bid_ask" =>
        LET res == lastScan.result
        IN  IF CalledBids # {} /\ CalledAsks # {}
            THEN /\ res.spread = RSub(RMinOf(CalledAsks), RMax(CalledBids))
                 /\ res.mid_price = RDiv(RAdd(RMax(CalledBids), RMinOf(CalledAsks)), R(2, 1))
            ELSE IsNone(res.spread) /\ IsNone(res.mid_price)

\* total size offered on a ladder of asks
RECURSIVE Depth(_)
Depth(asks) == IF asks = <<>> THEN Zero ELSE RAdd(Head(asks).size, Depth(Tail(asks)))

\* C24: marketImpact. The asks are walked in ascending price, min(remaining, level
\* size) being taken at each level; when the asks hold less than the requested
\* size the remainder stays unfilled, and the average price is the total cost
\* divided by the filled size, hence never below the best ask when anything was
\* filled.
C24_MarketImpact ==
    lastScan.op = "market_impact" =>
        LET asks == IF lastScan.side = "YES" THEN lastScan.yes_asks ELSE lastScan.no_asks
            res == lastScan.result
            filled == RMin(lastScan.size, Depth(asks))
        IN  RGt(filled, Zero) =>
              /\ res.average_price = RDiv(res.total_cost, filled)
              /\ RGe(res.average_price, RMinOf(AskPrices(asks)))

----------------------------------------------------------------------------
(* Strategy selection and position sizing as functions of what is held.    *)

\* Strategies the generator can hand over here: two of one type, a win rate
\* shared by two, max_position_size below, at and above the settings' value
\* and absent.
SizingPool ==
    StrategyPool \cup
    { Strategy("s_big", "arbitrage", R(8, 10), R(5, 10)),
      Strategy("s_edge", "probability_edge", R(8, 10), R(1, 10)) }

SizingTypes == {"arbitrage", "time_decay", "liquidity"}
SizingScores == { Zero, R(5, 10), R(8, 10), R(9, 10), One }

\* _consider_trading up to its call of place_order: the strategy selected for
\* the opportunity and the size fraction computed for it (None without strategy)
SizingCall(type, score) ==
    LET opp == Opportunity(0, "m1", type, "YES", score, Zero, "low", P4, None)
        strategy == SelectStrategy(opp)
    IN  /\ lastScan' = [op |-> "sizing", opportunity_type |-> type, score |-> score,
                        held |-> strategies, strategy |-> strategy,
                        position_size |-> IF strategy = NoStrategy THEN None
                                          ELSE CalculatePositionSize(opp, strategy)]
        /\ UNCHANGED <<scanner_opps, scanned_markets, nextId, now, scan, scannerFrame>>

NextSizing ==
    \/ \E st \in SizingPool : StoreStrategy(st)
    \/ \E type \in SizingTypes, score \in SizingScores : SizingCall(type, score)

\* The strategy map filled in any order, and opportunities sized against it.
SpecSizing == InitLedger /\ [][NextSizing]_vars

\* C25: position sizing. The size fraction handed to place_order is
\* min(strategy max_position_size, settings max_position_size) * score, the
\* strategy's value being replaced by the settings' when it has none.
C25_PositionSizing ==
    lastScan.op = "sizing" /\ lastScan.strategy # NoStrategy =>
        LET own == lastScan.strategy.max_position_size
            max_size == IF IsNone(own) THEN SettingsMaxPositionSize
                        ELSE RMin(own, SettingsMaxPositionSize)
        IN  lastScan.position_size = RMul(max_size, lastScan.score)

\* the held strategies of the opportunity's type, by their place in the map
MatchingHeld ==
    { i \in DOMAIN lastScan.held :
        lastScan.held[i].strategy_type = lastScan.opportunity_type }

\* the selected strategy is one of held[I] and none of held[I] has a higher win rate
BestAmong(I) ==
    /\ \E i \in I : lastScan.held[i] = lastScan.strategy
    /\ \A i \in I : RGe(lastScan.strategy.win_rate, lastScan.held[i].win_rate)

\* C26: strategy selection. The strategy selected for an opportunity has the
\* highest win rate among the held strategies of the opportunity's type; when
\* none is of that type, the highest among all held strategies; none is selected
\* exactly when no strategy is held.
C26_StrategySelection ==
    lastScan.op = "sizing" =>
        /\ lastScan.strategy = NoStrategy <=> lastScan.held = <<>>
        /\ MatchingHeld # {} => BestAmong(MatchingHeld)
        /\ MatchingHeld = {} /\ lastScan.held # <<>> => BestAmong(DOMAIN lastScan.held)

\* C26's case: two strategies of the opportunity's type are held next to one of
\* another type with a higher win rate than one of them; the better of the two
\* matching ones was selected
C26_Witness ==
    /\ lastScan.op = "sizing"
    /\ Cardinality(MatchingHeld) = 2
    /\ \E i \in DOMAIN lastScan.held \ MatchingHeld : \E j \in MatchingHeld :
          RGt(lastScan.held[i].win_rate, lastScan.held[j].win_rate)
    /\ lastScan.strategy.name = "s_big"

----------------------------------------------------------------------------
(* Order of the intake's events.                                           *)

\* every "trade_executed" event has the "opportunity" event of the same id before it
TradeAfterOpportunity ==
    \A i \in DOMAIN events :
        events[i].type = "trade_executed" =>
            \E j \in 1..(i - 1) : events[j] = Event("opportunity", events[i].id)

\* this step publishes a "trade_executed" event
TradePublished ==
    /\ Len(events') > Len(events)
    /\ events'[Len(events')].type = "trade_executed"

\* this step records a fill in the ledger
FillRecorded ==
    /\ Len(ledgerLog') > Len(ledgerLog)
    /\ ledgerLog'[Len(ledgerLog')].kind = "fill"

\* C27: event ordering for auto-trading. A "trade_executed" event is published
\* for an opportunity only when place_order returned an order for it, the
\* opportunity scoring at least 0.8, fewer positions than the maximum being open,
\* a strategy being selected and the capital sufficing, and it comes after the
\* "opportunity" event of that opportunity; an opportunity scoring below 0.8
\* causes no placement in the ledger.
C27_EventOrdering ==
    /\ []TradeAfterOpportunity
    /\ [][TradePublished =>
            /\ intake.pc = "loop"
            /\ events'[Len(events')].id = Head(intake.todo).id
            /\ lastCall'.op = "place" /\ lastCall'.result = "order"
            /\ FillRecorded
            /\ RGe(Head(intake.todo).score, R(8, 10))
            /\ Len(positions) < MaxConcurrentPositions
            /\ SelectStrategy(Head(intake.todo)) # NoStrategy
            /\ RLe(PositionValue(lastCall'.pct), capital)]_vars
    /\ [][FillRecorded =>
            intake.pc = "loop" /\ RGe(Head(intake.todo).score, R(8, 10))]_vars

\* C27's case: a trade was executed and published after its opportunity's event,
\* and an opportunity scoring below 0.8 was taken in and published without any
\* placement: the ledger holds the one fill
C27_Witness ==
    /\ \E i \in DOMAIN events : events[i].type = "trade_executed"
    /\ \E k \in DOMAIN retained :
          /\ RLt(retained[k].score, R(8, 10))
          /\ \E j \in DOMAIN events : events[j] = Event("opportunity", retained[k].id)
    /\ Len(ledgerLog) = 1

----------------------------------------------------------------------------
(* Lifecycle: start(), the four loops, stop() and the server's shutdown.   *)

\* A loop task is "new" (created, not yet scheduled), in "work" (inside an
\* iteration, suspended in one of its awaits), in "sleep" (asyncio.sleep), "done"
\* (its while test failed) or "cancelled".
lifeFrame ==
    <<ledgerVars, ledgerLog, lastCall, closers, refresh, scanVars,
      retained, strategies, redis_client, intake, events>>

\* the running flag a loop tests in its "while"
LoopFlag(l) == IF l = "scan" THEN life.scanner_running ELSE life.running

\* start(): running = True, the four tasks are created, and start() waits in gather
StartCall ==
    /\ ~life.started
    /\ life' = [life EXCEPT !.started = TRUE, !.running = TRUE,
                            !.loops = [l \in LoopNames |-> "new"], !.last = "start"]
    /\ UNCHANGED lifeFrame

\* a task runs for the first time, up to its first await: scanner.start() sets
\* its own flag and enters scan_markets; the refresh and intake loops test
\* self.running and enter their work; the strategy loop tests it and sleeps
LoopFirst(l) ==
    /\ life.loops[l] = "new"
    /\ life' = [life EXCEPT
                  !.scanner_running = IF l = "scan" THEN TRUE ELSE @,
                  !.loops[l] = IF l = "scan" THEN "work"
                               ELSE IF ~life.running THEN "done"
                               ELSE IF l = "strategy" THEN "sleep" ELSE "work",
                  !.last = "first"]
    /\ UNCHANGED lifeFrame

\* where a loop is after the end of an iteration's work, normal or through its
\* "except Exception": the scan, refresh and intake loops sleep; the strategy
\* loop, whose sleep opens the iteration, is at its while test
AfterWork(l) ==
    IF l # "strategy" THEN "sleep"
    ELSE IF life.running THEN "sleep" ELSE "done"

\* an iteration's work ends normally
LoopWorkDone(l) ==
    /\ life.loops[l] = "work"
    /\ life' = [life EXCEPT !.loops[l] = AfterWork(l), !.last = "work_done"]
    /\ UNCHANGED lifeFrame

\* a loop whose iteration raised, with one detail changed: there is no handler
LoopRaises_unhandled(l) ==
    /\ life.loops[l] = "work"
    /\ life' = [life EXCEPT !.loops[l] = "done", !.raised = @ \cup {l}, !.last = "raise"]
    /\ UNCHANGED lifeFrame

\* an iteration's work raises an exception; the loop's handler logs it
LoopRaises(l) ==
    /\ life.loops[l] = "work"
    /\ life' = [life EXCEPT !.loops[l] = AfterWork(l), !.raised = @ \cup {l},
                            !.last = "raise"]
    /\ UNCHANGED lifeFrame

\* a sleep ends: the scan, refresh and intake loops test their flag and start the
\* next iteration's work or end; the strategy loop goes on into its work, unless
\* ten strategies are held (full), which takes it back to its while test
LoopWakes(l, full) ==
    /\ life.loops[l] = "sleep"
    /\ life' = [life EXCEPT
                  !.loops[l] = IF l = "strategy"
                               THEN (IF ~full THEN "work"
                                     ELSE IF life.running THEN "sleep" ELSE "done")
                               ELSE (IF LoopFlag(l) THEN "work" ELSE "done"),
                  !.last = "wake"]
    /\ UNCHANGED lifeFrame

\* the server's shutdown calls stop(): running = False, scanner.stop(), and it
\* waits in client.shutdown()
StopCall ==
    /\ life.started
    /\ life.stop = "none"
    /\ life' = [life EXCEPT !.running = FALSE, !.scanner_running = FALSE,
                            !.stop = "shutdown", !.last = "stop"]
    /\ UNCHANGED lifeFrame

\* stop(): the client is shut down; stop() goes on to the sink, if there is one
StopShutdown ==
    /\ life.stop = "shutdown"
    /\ life' = [life EXCEPT !.client_open = FALSE,
                            !.stop = IF redis_client THEN "close" ELSE "done",
                            !.last = "shutdown"]
    /\ UNCHANGED lifeFrame

\* stop(): redis_client.close()
StopClose ==
    /\ life.stop = "close"
    /\ life' = [life EXCEPT !.sink_open = FALSE, !.stop = "done", !.last = "close"]
    /\ UNCHANGED lifeFrame

\* the server cancels the task of start() after its stop() has returned: gather
\* cancels every loop task that has not ended
CancelStart ==
    /\ life.stop = "done"
    /\ ~life.cancelled
    /\ life' = [life EXCEPT
                  !.cancelled = TRUE,
                  !.loops = [l \in LoopNames |->
                               IF life.loops[l] = "done" THEN "done" ELSE "cancelled"],
                  !.last = "cancel"]
    /\ UNCHANGED lifeFrame

\* start(): gather has returned and "finally: await self.stop()" runs
FinalStop ==
    /\ life.started
    /\ life.final = "none"
    /\ \A l \in LoopNames : life.loops[l] \in {"done", "cancelled"}
    /\ life' = [life EXCEPT !.running = FALSE, !.scanner_running = FALSE,
                            !.client_open = FALSE, !.sink_open = FALSE,
                            !.final = "done", !.last = "final_stop"]
    /\ UNCHANGED lifeFrame

NextLifecycle ==
    \/ StartCall
    \/ \E l \in LoopNames : LoopFirst(l)
    \/ \E l \in LoopNames : LoopWorkDone(l)
    \/ \E l \in LoopNames : LoopRaises(l)
    \/ \E l \in LoopNames, full \in BOOLEAN : LoopWakes(l, full)
    \/ StopCall
    \/ StopShutdown
    \/ StopClose
    \/ CancelStart
    \/ FinalStop

\* The orchestrator from initialize() to the end of its shutdown.
SpecLifecycle == Init /\ [][NextLifecycle]_vars

\* stop() has been called, by the server or by start() itself
StopCalled == life.stop # "none" \/ life.final # "none"

\* C28: loop resilience. When an iteration of one of the four loops raises, that
\* loop does not end for it: it sleeps its interval and, unless stopped, runs
\* again, and the other loops are where they were; no loop ends unless stop() has
\* been called.
C28_LoopResilience ==
    /\ [][\A l \in LoopNames :
            life.loops[l] = "work" /\ life'.last = "raise" /\ life'.loops[l] # "work" =>
                /\ life'.loops[l] = "sleep" \/ (life'.loops[l] = "done" /\ StopCalled)
                /\ \A k \in LoopNames \ {l} : life'.loops[k] = life.loops[k]]_vars
    /\ [][\A l \in LoopNames :
            life.loops[l] = "sleep" /\ life'.loops[l] # "sleep" /\ ~StopCalled =>
                life'.loops[l] = "work"]_vars
    /\ [](\A l \in LoopNames : life.loops[l] \in {"done", "cancelled"} => StopCalled)

\* C28's case: the scan loop and the refresh loop have both had an iteration
\* raise, stop() has not been called, and both are inside a later iteration
C28_Witness ==
    /\ {"scan", "refresh"} \subseteq life.raised
    /\ ~StopCalled
    /\ life.loops["scan"] = "work"
    /\ life.loops["refresh"] = "work"
    /\ life.last = "wake"

\* C29: shutdown ordering. The client is shut down and the sink closed only
\* after all four loops have ended: no loop is inside an iteration, or yet to
\* run one, when a resource has been released.
C29_ShutdownOrdering ==
    ~life.client_open \/ (redis_client /\ ~life.sink_open) =>
        \A l \in LoopNames : life.loops[l] \in {"done", "cancelled"}

\* C30: exit at the next iteration boundary. Once stop() has been called no loop
\* begins a unit of work: a sleeping loop that wakes ends without working.
C30_NoWorkAfterStop ==
    [][\A l \in LoopNames :
          life.loops[l] # "work" /\ life'.loops[l] = "work" => ~StopCalled]_vars

----------------------------------------------------------------------------
(* Shutdown liveness: start() and stop() under fair scheduling.            *)

\* one step of the event loop for the task of loop l
LoopStep(l) ==
    \/ LoopFirst(l)
    \/ LoopWorkDone(l)
    \/ LoopRaises(l)
    \/ \E full \in BOOLEAN : LoopWakes(l, full)

\* start(), the loops and stop(), without the server's cancellation
NextShutdown ==
    \/ StartCall
    \/ \E l \in LoopNames : LoopStep(l)
    \/ StopCall
    \/ StopShutdown
    \/ StopClose
    \/ FinalStop

\* the event loop runs every task that is ready: each loop task and stop()
FairShutdown ==
    /\ \A l \in LoopNames : WF_vars(LoopStep(l))
    /\ WF_vars(StopShutdown)
    /\ WF_vars(StopClose)
    /\ WF_vars(FinalStop)

SpecShutdown == Init /\ [][NextShutdown]_vars /\ FairShutdown

\* C31: shutdown liveness. After stop() has been called, whenever it comes after
\* start(), all four loops eventually end.
C31_ShutdownLiveness ==
    (life.stop # "none") ~> (\A l \in LoopNames : life.loops[l] = "done")

----------------------------------------------------------------------------
(* The event bus: subscribe() and _publish().                              *)

EventTypes == {"opportunity", "trade_executed"}
MaxSubscribers == 3

\* callbacks a caller may register: two that return and one that raises
Callbacks ==
    { [name |-> "cb_a", raises |-> FALSE],
      [name |-> "cb_b", raises |-> TRUE],
      [name |-> "cb_c", raises |-> FALSE] }

\* self.subscribers, kept in the record of the last bus operation
Subscribers ==
    IF lastScan.op \in {"subscribe", "publish"} THEN lastScan.subscribers
    ELSE [t \in EventTypes |-> <<>>]

\* the "for callback in subscribers" of _publish: each callback is called inside
\* its own try/except Exception, so the walk goes on after one that raises
RECURSIVE Notify(_)
Notify(subs) ==
    IF subs = <<>> THEN <<>>
    ELSE <<Head(subs).name>> \o Notify(Tail(subs))

\* _publish: the sink's publish comes first and is not guarded; when it raises,
\* the exception leaves _publish before any subscriber has been called
Publish(type, sink) ==
    IF sink = "publish_fails"
    THEN [invoked |-> <<>>, propagated |-> "sink"]
    ELSE [invoked |-> Notify(Subscribers[type]), propagated |-> "none"]

\* subscribe(event_type, callback)
SubscribeCall(type, cb) ==
    /\ Len(Subscribers[type]) < MaxSubscribers
    /\ lastScan' = [op |-> "subscribe", type |-> type,
                    subscribers |-> [Subscribers EXCEPT ![type] = Append(@, cb)],
                    sink |-> "ok", invoked |-> <<>>, propagated |-> "none"]
    /\ UNCHANGED <<scanner_opps, scanned_markets, nextId, now, scan, scannerFrame>>

\* a loop publishes an event of one type
PublishCall(type, sink) ==
    /\ sink = "publish_fails" => redis_client
    /\ lastScan' = [op |-> "publish", type |-> type, subscribers |-> Subscribers,
                    sink |-> sink, invoked |-> Publish(type, sink).invoked,
                    propagated |-> Publish(type, sink).propagated]
    /\ UNCHANGED <<scanner_opps, scanned_markets, nextId, now, scan, scannerFrame>>

NextPublish ==
    \/ \E type \in EventTypes, cb \in Callbacks : SubscribeCall(type, cb)
    \/ \E type \in EventTypes, sink \in {"ok", "publish_fails"} : PublishCall(type, sink)

\* The orchestrator's event bus, with or without the external sink.
SpecPublish == Init /\ [][NextPublish]_vars

\* the names of the callbacks registered for the type of the last publish
RegisteredNames ==
    [i \in 1..Len(lastScan.subscribers[lastScan.type]) |->
        lastScan.subscribers[lastScan.type][i].name]

\* C32: subscriber isolation. Whenever an event is published, the subscribers
\* registered for its type are each invoked once, in registration order, and no
\* exception of a subscriber reaches the publishing loop.
C32_SubscriberIsolation ==
    lastScan.op = "publish" =>
        /\ lastScan.invoked = RegisteredNames
        /\ lastScan.propagated # "subscriber"

----------------------------------------------------------------------------
(* Refresh with a failing price feed.                                      *)

\* the step is update_positions receiving `book` for the item at the head of its
\* list, and the book or the best price of the position's side is missing
RefreshFeedFails(book) ==
    /\ refresh.pc = "book"
    /\ lastCall'.op = "refresh"
    /\ lastCall'.book = book
    /\ PriceMissing(book, SidePrice(heap[Head(refresh.items)[2]], book))

\* C33: a price-feed failure during update_positions changes nothing. When the
\* book or the best price for the side of the position being refreshed is
\* missing, no position object changes (mark price, unrealized PnL, thresholds,
\* open status), the open positions, capital and the histories are unchanged, and
\* the pass goes on with the positions that remain in its list.
C33_FeedFailureNoChange ==
    [][\A book \in Books : RefreshFeedFails(book) =>
          /\ heap' = heap
          /\ positions' = positions
          /\ capital' = capital
          /\ trade_history' = trade_history
          /\ closed_positions' = closed_positions
          /\ refresh'.items = Tail(refresh.items)
          /\ refresh'.pc = IF Tail(refresh.items) = <<>> THEN "idle" ELSE "book"]_vars

\* C33's case: the feed failed for the first of two positions of a pass, and the
\* pass is waiting for the book of the second
C33_Witness ==
    /\ lastCall.op = "refresh"
    /\ lastCall.result = "none"
    /\ PriceMissing(lastCall.book, SidePrice(heap[lastCall.ref], lastCall.book))
    /\ refresh.pc = "book"
    /\ Len(refresh.items) = 1
    /\ Len(positions) = 2

----------------------------------------------------------------------------
(* The refresh loop and the intake's orders, interleaved at their awaits.  *)

\* The ledger driven by the two loops of the orchestrator only: the intake places
\* orders, update_positions marks and closes.
NextInterleave ==
    \/ \E opp \in LedgerOpps, pct \in LedgerPcts : PlaceCall(opp, pct)
    \/ UpdatePositionsStart
    \/ \E book \in Books : UpdatePositionsBook(book)
    \/ \E book \in Books : UpdatePositionsClose(book)

SpecInterleave == InitLedger /\ [][NextInterleave]_vars

RECURSIVE SumSize(_, _)
SumSize(log, ref) ==
    IF log = <<>> THEN Zero
    ELSE RAdd(IF Head(log).kind = "fill" /\ Head(log).ref = ref
              THEN Head(log).size ELSE Zero,
              SumSize(Tail(log), ref))

RECURSIVE SumCost(_, _)
SumCost(log, ref) ==
    IF log = <<>> THEN Zero
    ELSE RAdd(IF Head(log).kind = "fill" /\ Head(log).ref = ref
              THEN RMul(Head(log).price, Head(log).size) ELSE Zero,
              SumCost(Tail(log), ref))

\* a close accounts for every fill of its position: full size, weighted-mean entry
CloseAccountsFills(e) ==
    /\ e.size = SumSize(ledgerLog, e.ref)
    /\ RMul(e.entry, e.size) = SumCost(ledgerLog, e.ref)
    /\ CloseCount(e.ref) = 1

\* C34: refresh/intake interleaving keeps every fill accounted. Every close found
\* in the log has the size of all the fills of its position and their
\* size-weighted mean entry price, each position closes once, and the closing
\* step credits capital with exit price * that full size.
C34_FillsAccounted ==
    /\ [](\A i \in 1..Len(ledgerLog) :
            ledgerLog[i].kind = "close" => CloseAccountsFills(ledgerLog[i]))
    /\ [][\A ref \in 1..Len(heap) :
            CloseCount(ref) = 0 /\ ~heap[ref].closed /\ heap'[ref].closed =>
                capital' = RAdd(capital, RMul(heap'[ref].current_price,
                                              SumSize(ledgerLog, ref)))]_vars

\* C34's case: update_positions is waiting for the closing price of a position
\* it decided to close, and a second fill at another price has just been merged
\* into that position
C34_Witness ==
    /\ refresh.pc = "close"
    /\ lastCall.op = "place"
    /\ lastCall.result = "order"
    /\ lastCall.ref = refresh.cref
    /\ Len(ledgerLog) = 2
    /\ ledgerLog[1].ref = refresh.cref
    /\ ledgerLog[2].ref = refresh.cref
    /\ ledgerLog[2].price # ledgerLog[1].price

----------------------------------------------------------------------------
(* Sanity of the ledger.                                                   *)

\* C35: ledger sanity. Capital is never negative and every open position has a
\* size above zero.
C35_LedgerSanity ==
    /\ RGe(capital, Zero)
    /\ \A i \in 1..Len(positions) : RGt(heap[positions[i][2]].size, Zero)

----------------------------------------------------------------------------
(* Positions opened from what the detectors build, and their first refresh. *)

\* an order is placed for one of the opportunities the detectors build for a
\* market from an order book
PlaceDetected(m, book, i, pct) ==
    /\ book.avail
    /\ i <= Len(Detected(m, book))
    /\ PlaceCall(Detected(m, book)[i], pct)

\* order books served to the scanner and to the refresh: one side heavily
\* favoured, either way round, and an even book
ExitBooks ==
    { NoBook,
      Book({R(85, 100)}, {R(5, 100)}),
      Book({R(5, 100)}, {R(85, 100)}),
      Book({P6}, {P4}) }

\* the market every detector looks at: little liquidity, resolving within the day
ExitMarkets == {"m1"}

NextExit ==
    \/ \E m \in ExitMarkets, book \in ExitBooks, i \in 1..3, pct \in LedgerPcts :
          PlaceDetected(m, book, i, pct)
    \/ UpdatePositionsStart
    \/ \E book \in ExitBooks : UpdatePositionsBook(book)
    \/ \E book \in ExitBooks : UpdatePositionsClose(book)

\* The ledger fed with the scanner's opportunities and refreshed.
SpecExit == InitLedger /\ [][NextExit]_vars

\* update_positions receives `book` for the position at the head of its list, and
\* the best price on the position's side is the position's entry price
RefreshAtEntry(book) ==
    /\ refresh.pc = "book"
    /\ lastCall'.op = "refresh"
    /\ lastCall'.book = book
    /\ book.avail
    /\ SidePrice(heap[Head(refresh.items)[2]], book)
         = heap[Head(refresh.items)[2]].entry_price

\* C36: no exit without a price move. A refresh that finds the best price on a
\* position's side equal to its entry price does not go on to close it.
C36_NoExitAtEntry ==
    [][\A book \in ExitBooks : RefreshAtEntry(book) => refresh'.pc # "close"]_vars

----------------------------------------------------------------------------
(* The intake under fair scheduling.                                       *)

\* the scan loop and the intake loop alone: no strategy is held, so nothing is traded
NextIntake ==
    \/ \E m \in Markets : \E book \in ServedBooks[m] : ScanMarket(m, book)
    \/ IntakeStart
    \/ \E sink \in SinkOutcomes : IntakeStep(sink)

\* the event loop runs the intake's task whenever it is ready
FairIntake ==
    /\ WF_vars(IntakeStart)
    /\ WF_vars(\E sink \in SinkOutcomes : IntakeStep(sink))

\* The scanner and the intake, the intake scheduled fairly.
SpecIntake == Init /\ [][NextIntake]_vars /\ FairIntake

\* the scanner's buffer holds opportunity `id` with a score at or above the threshold
Buffered(id) ==
    \E i \in 1..Len(scanner_opps) :
        /\ scanner_opps[i].id = id
        /\ RGe(scanner_opps[i].score, OpportunityScoreThreshold)

\* every opportunity of the scanner's buffer at or above the threshold has gone
\* out as an "opportunity" event (the intake retains it just before it publishes)
AllBufferedPublished ==
    \A id \in IssuedIds : Buffered(id) => Published("opportunity", id) > 0

\* C37: intake liveness. Every opportunity of the scanner's buffer with a score
\* at or above the threshold is eventually retained and published: whatever the
\* buffer holds, a state where all of them have been published comes again and
\* again.
C37_IntakeLiveness == []<>AllBufferedPublished

\* every opportunity now in the retained buffer has gone out as an "opportunity" event
AllRetainedPublished ==
    \A id \in IssuedIds : RetainedCopies(id) > 0 => Published("opportunity", id) > 0

\* C38: a sink failure does not lose an opportunity. An opportunity the intake
\* has retained reaches the subscribers as an "opportunity" event, in the pass
\* that retained it or in a later one: a state where every retained opportunity
\* has been published comes again and again.
C38_SinkFailureKeepsOpportunity == []<>AllRetainedPublished

----------------------------------------------------------------------------
(* Concurrent analyses of one scan cycle.                                  *)

\* C39: no duplicate analysis of a market. An analysis adds detector results to
\* the scanner's buffer only for a market that is not in the seen set: a market
\* that has contributed once contributes no more.
C39_NoDuplicateAnalysis ==
    [][lastScan'.op = "analyze" /\ Len(scanner_opps') > Len(scanner_opps) =>
          lastScan'.market_id \notin scanned_markets]_vars

----------------------------------------------------------------------------
(* The strategy-refresh loop and the two strategy maps.                    *)

StrategyCap == 10             \* "if len(self.strategy_generator.strategies) < 10"
MaxNames == 12                \* names the generator's model can come up with
StrategyTypes == <<"arbitrage", "probability_edge", "time_decay">>
StrategyNames == 1..MaxNames

\* The keys of strategy_generator.strategies and of the orchestrator's
\* self.strategies, and the strategy types a pass has still to ask for, kept in
\* the record of the loop's last step.
NoPass == [op |-> "strategies", generator |-> {}, coordinator |-> {}, todo |-> <<>>]
Pass == IF lastScan.op = "strategies" THEN lastScan ELSE NoPass

\* _generate_strategies_loop after its sleep: the one test of an iteration
PassStart ==
    /\ Pass.todo = <<>>
    /\ Cardinality(Pass.generator) < StrategyCap
    /\ lastScan' = [Pass EXCEPT !.todo = StrategyTypes]
    /\ UNCHANGED <<scanner_opps, scanned_markets, nextId, now, scan, scannerFrame>>

\* generate_strategy for the next type of the pass.  name = 0: nothing came back
\* or the strategy did not meet the criteria.  Otherwise the generator keeps it
\* under its name and returns it, and the loop stores it under the same name,
\* then hands it to the sink, whose failure ends the pass.
GenerateStep(name, sink) ==
    /\ Pass.todo # <<>>
    /\ sink = "store_fails" => redis_client /\ name # 0
    /\ lastScan' =
         [op |-> "strategies",
          generator |-> IF name = 0 THEN Pass.generator ELSE Pass.generator \cup {name},
          coordinator |-> IF name = 0 THEN Pass.coordinator
                          ELSE Pass.coordinator \cup {name},
          todo |-> IF sink = "store_fails" THEN <<>> ELSE Tail(Pass.todo)]
    /\ UNCHANGED <<scanner_opps, scanned_markets, nextId, now, scan, scannerFrame>>

NextStrategies ==
    \/ PassStart
    \/ \E name \in {0} \cup StrategyNames, sink \in {"ok", "store_fails"} :
          GenerateStep(name, sink)

\* The strategy-refresh loop, pass after pass.
SpecStrategies == Init /\ [][NextStrategies]_vars

\* C40: strategy cap. Neither the generator nor the orchestrator ever holds more
\* than 10 strategies.
C40_StrategyCap ==
    /\ Cardinality(Pass.generator) <= StrategyCap
    /\ Cardinality(Pass.coordinator) <= StrategyCap

====
